---- MODULE Spec2Model ----
(***************************************************************************)
(* Model of gmaps-scraper. The fetch engine of src/final_scraper.py:       *)
(* ProxyRotator, BusinessSpider.search / _request and the batching loop of *)
(* Scraper.run, as cooperative asyncio tasks that interleave only at their *)
(* await points. The grid of src/src/grid.py: GeoGrid.generate, _is_land   *)
(* and filter_water_sectors, with the coordinates in the floating-point    *)
(* arithmetic of the code. The merge of src/mega_scraper.py:               *)
(* Business.dedup_key and deduplicate_businesses. BusinessSpider._parse of *)
(* src/final_scraper.py from the html on, and the traversal of the decoded *)
(* payload, BusinessSpider._extract. The Overpass parsers                  *)
(* OSMScraper._parse of src/scraper_v2.py and MegaScraper._parse_osm of    *)
(* src/mega_scraper.py.                                                    *)
(***************************************************************************)
EXTENDS Integers, Sequences, FiniteSets, TLC

\* ------------------------------------------------------------------ bounds
\* Longest proxy list given to a ProxyRotator driven directly (SpecRotator).
MaxProxies == 3
\* Cap on the rotation cursor when the rotator is driven directly.
MaxCurrent == 6
\* Longest proxy list of a run.
RunProxies == 2
\* Largest number of land sectors of a run without proxies.
MaxSectors == 3
\* Largest number of land sectors of a run with proxies.
MaxProxySectors == 2

\* Longest list given to deduplicate_businesses.
MaxRaw == 3
\* Number of successive calls of deduplicate_businesses.
MaxPasses == 2

\* Largest grid_size of a GeoGrid driven directly.
MaxGrid == 11
\* Number of calls of filter_water_sectors after a generate.
MaxFilterCalls == 3

\* How deep the payloads given to _extract nest the dict they carry.
MaxNest == 20

\* Longest list of places with shared identities in a payload.
MaxGroup == 3

\* Most elements in an Overpass payload.
MaxElements == 3

\* Most land sectors in a run that is killed.
KillSectors == 2

\* Most land sectors in a run that is followed to its end.
FairSectors == 2

\* Most proxies in a run that is followed to its end.
FairProxies == 1

\* Most land sectors in such a run with proxies.
FairProxySectors == 1

\* The profiles of a run: the presets of Config scaled down to the sector
\* counts above, with fewer permits than a batch has sectors (SLOW, MEDIUM),
\* as many, and more (FAST), and with batches of one sector.
Profiles == {[max_concurrent |-> 1, batch_size |-> 2],
             [max_concurrent |-> 2, batch_size |-> 2],
             [max_concurrent |-> 3, batch_size |-> 2],
             [max_concurrent |-> 2, batch_size |-> 1]}

\* The numbers of records one payload yields.
RecordCounts == {0, 1}

\* ------------------------------------------------------- program constants
\* for attempt in range(3)
MaxAttempts == 3
\* await asyncio.sleep(2 ** attempt)
BackoffBase == 2

\* re.sub(...)[:20] in dedup_key
KeyNameLen == 20

\* Python's None as a proxy (no proxy).
None == "None"

\* The proxy strings lists are built from.
ProxyNames == {"p1", "p2", "p3"}

\* The lines of the proxy file of a run; a run loads a prefix of it.
ProxyFile == <<"p1", "p2", "p3", "p4">>

VARIABLES
    proxies,      \* ProxyRotator.proxies
    current,      \* ProxyRotator.current
    failed,       \* ProxyRotator.failed
    last,         \* the most recent direct call on the rotator and its return value
    config,       \* the profile: max_concurrent, batch_size
    land,         \* number of sectors filter_water_sectors returned
    max_sectors,  \* Scraper.run's max_sectors argument
    sectors,      \* Scraper.run's sectors after truncation
    semaphore,    \* BusinessSpider.semaphore: number of free permits
    stats,        \* BusinessSpider.stats
    task,         \* per sector: the search coroutine of the current batch
    fetched,      \* per sector: calls of search so far and how the fetch ended
    all_places,   \* Scraper.run's all_places
    runpc,        \* Scraper.run's position
    i,            \* Scraper.run's loop variable
    country,      \* the country argument of Scraper.run and of GeoGrid
    grid_size,    \* GeoGrid.grid_size
    grid_sectors, \* GeoGrid.sectors
    grid_log,     \* the calls on the GeoGrid since generate, and what they returned
    all_raw,      \* mega_scraper.main's all_raw
    unique,       \* what the successive calls of deduplicate_businesses returned
    data,         \* the decoded payload _extract is given, or the html _parse is
                  \* given
    extract_out,  \* once _extract has returned: the places and how deep it
                  \* looked; once _parse has returned or raised: the places it
                  \* collected and the ones it returned
    osm_data,     \* the elements of the Overpass payload the OSM parsers are given
    osm_out       \* once they have returned: what each of the two returned

vars == <<proxies, current, failed, last, config, land, max_sectors, sectors,
          semaphore, stats, task, fetched, all_places, runpc, i, country,
          grid_size, grid_sectors, grid_log, all_raw, unique, data,
          extract_out, osm_data, osm_out>>

Min(a, b) == IF a < b THEN a ELSE b

RECURSIVE Pow(_, _)
Pow(b, e) == IF e = 0 THEN 1 ELSE b * Pow(b, e - 1)

\* All sequences over S of length at most n.
SeqsUpTo(S, n) == UNION {[1..k -> S] : k \in 0..n}

\* Python's s[lo:hi] for 0 <= lo and 0 <= hi.
PySlice(s, lo, hi) == SubSeq(s, lo + 1, Min(hi, Len(s)))

\* ------------------------------------------------ the floats of the grid

\* The coordinates of grid.py are Python floats: IEEE 754 binary64, every
\* operation rounded to nearest, ties to even. A float is modelled as
\* [s, m, e], its value s * m * 2^e, with s the sign (1 or -1), e an integer
\* and m a natural number of exactly Precision bits (so that equal floats
\* are equal records), or zero. m is more than an integer of TLC holds: it
\* is a sequence of limbs in base Base, least significant first, without
\* leading zeros; zero is the empty sequence.
Precision == 53
Base == 2 ^ 15

\* The limbs of the integer k >= 0.
RECURSIVE Big(_)
Big(k) == IF k = 0 THEN << >> ELSE <<k % Base>> \o Big(k \div Base)

\* a without its leading zero limbs.
RECURSIVE Trim(_)
Trim(a) ==
    IF a # << >> /\ a[Len(a)] = 0 THEN Trim(SubSeq(a, 1, Len(a) - 1)) ELSE a

Limb(a, k) == IF k <= Len(a) THEN a[k] ELSE 0

\* The limbs of a + b from limb k on, with the carry c.
RECURSIVE AddFrom(_, _, _, _)
AddFrom(a, b, k, c) ==
    IF k > Len(a) /\ k > Len(b)
    THEN Big(c)
    ELSE LET t == Limb(a, k) + Limb(b, k) + c
         IN  <<t % Base>> \o AddFrom(a, b, k + 1, t \div Base)

\* The limbs of a - b (a >= b) from limb k on, with the borrow c.
RECURSIVE SubFrom(_, _, _, _)
SubFrom(a, b, k, c) ==
    IF k > Len(a)
    THEN << >>
    ELSE LET t == Limb(a, k) - Limb(b, k) - c
         IN  <<t % Base>> \o SubFrom(a, b, k + 1, IF t < 0 THEN 1 ELSE 0)

\* The limbs of a * k (0 <= k < 2 * Base) from limb j on, with the carry c.
RECURSIVE MulFrom(_, _, _, _)
MulFrom(a, k, j, c) ==
    IF j > Len(a)
    THEN Big(c)
    ELSE LET t == a[j] * k + c
         IN  <<t % Base>> \o MulFrom(a, k, j + 1, t \div Base)

\* The quotient and the remainder of a by k (0 < k < 2 * Base): long
\* division from limb j down, r the remainder so far, q the limbs so far.
RECURSIVE DivFrom(_, _, _, _, _)
DivFrom(a, k, j, r, q) ==
    IF j = 0
    THEN [quot |-> Trim(q), rem |-> r]
    ELSE LET t == r * Base + a[j]
         IN  DivFrom(a, k, j - 1, t % k, <<t \div k>> \o q)

\* -1, 0 or 1 as a < b, a = b or a > b, comparing from limb k down.
RECURSIVE CmpFrom(_, _, _)
CmpFrom(a, b, k) ==
    IF k = 0 THEN 0
    ELSE IF Limb(a, k) < Limb(b, k) THEN -1
    ELSE IF Limb(a, k) > Limb(b, k) THEN 1
    ELSE CmpFrom(a, b, k - 1)

BigCmp(a, b) == CmpFrom(a, b, IF Len(a) > Len(b) THEN Len(a) ELSE Len(b))

\* a * 2^n and the quotient and remainder of a by 2^n.
Shl(a, n) ==
    IF a = << >> THEN << >>
    ELSE [k \in 1..(n \div 15) |-> 0] \o Trim(MulFrom(a, 2 ^ (n % 15), 1, 0))

Shr(a, n) ==
    LET limbs == n \div 15
        high == DivFrom(SubSeq(a, limbs + 1, Len(a)), 2 ^ (n % 15),
                        Len(a) - limbs, 0, << >>)
    IN  [quot |-> high.quot,
         rem |-> Trim(SubSeq(a, 1, limbs) \o <<high.rem>>)]

\* The number of bits of the integer k >= 0, and of a.
RECURSIVE Bits(_)
Bits(k) == IF k = 0 THEN 0 ELSE 1 + Bits(k \div 2)

BitLen(a) == IF a = << >> THEN 0 ELSE 15 * (Len(a) - 1) + Bits(a[Len(a)])

Zero == [s |-> 1, m |-> << >>, e |-> 0]

\* The quotient of cut rounded to the nearest integer, ties to the even
\* one: cut is the quotient and the remainder by 2^over.
Halfway(cut, over, half) ==
    IF half > 0 \/ (half = 0 /\ cut.quot[1] % 2 = 1)
    THEN AddFrom(cut.quot, Big(1), 1, 0)
    ELSE cut.quot

\* s * m * 2^e for m of Precision bits or, after the carry of a rounding,
\* of one more (a power of two).
Normal(s, m, e) ==
    IF BitLen(m) > Precision
    THEN [s |-> s, m |-> Shr(m, 1).quot, e |-> e + 1]
    ELSE [s |-> s, m |-> m, e |-> e]

\* The float nearest to s * a * 2^e for a of Precision + over bits.
Cut(s, a, e, over) ==
    IF over <= 0
    THEN [s |-> s, m |-> Shl(a, -over), e |-> e + over]
    ELSE Normal(s, Halfway(Shr(a, over), over,
                           BigCmp(Shr(a, over).rem, Shl(Big(1), over - 1))),
                e + over)

\* The float nearest to s * a * 2^e, ties to the even mantissa.
Nearest(s, a, e) ==
    IF a = << >> THEN Zero ELSE Cut(s, a, e, BitLen(a) - Precision)

\* float(k) for an integer k.
FromInt(k) == Nearest(IF k < 0 THEN -1 ELSE 1, Big(IF k < 0 THEN -k ELSE k), 0)

\* The float nearest to (sa * a + sb * b) * 2^e.
Summed(sa, a, sb, b, e) ==
    IF sa = sb THEN Nearest(sa, AddFrom(a, b, 1, 0), e)
    ELSE IF BigCmp(a, b) >= 0 THEN Nearest(sa, Trim(SubFrom(a, b, 1, 0)), e)
    ELSE Nearest(sb, Trim(SubFrom(b, a, 1, 0)), e)

\* x + y: both brought to the lesser exponent, added exactly, rounded.
FAdd(x, y) ==
    Summed(x.s, Shl(x.m, x.e - Min(x.e, y.e)),
           y.s, Shl(y.m, y.e - Min(x.e, y.e)), Min(x.e, y.e))

\* x - y.
FSub(x, y) == FAdd(x, [y EXCEPT !.s = -@])

\* -1, 0 or 1 as x < y, x = y or x > y.
FCmp(x, y) ==
    IF x.m = << >> THEN (IF y.m = << >> THEN 0 ELSE -y.s)
    ELSE IF y.m = << >> THEN x.s
    ELSE IF x.s # y.s THEN x.s
    ELSE IF x.e # y.e THEN (IF x.e < y.e THEN -x.s ELSE x.s)
    ELSE x.s * BigCmp(x.m, y.m)

\* k * x for an integer 0 <= k < 2 * Base.
FMul(k, x) == Nearest(x.s, Trim(MulFrom(x.m, k, 1, 0)), x.e)

\* The float nearest to s * (d.quot + a fraction) * 2^(e + 1), where the
\* fraction is zero exactly when d.rem is: one more bit says whether a
\* remainder was left.
Sticky(s, d, e) ==
    Nearest(s, AddFrom(Shl(d.quot, 1), Big(IF d.rem = 0 THEN 0 ELSE 1), 1, 0), e)

\* x / k for an integer 0 < k < 2 * Base: the quotient to Precision + 2
\* bits or more.
FDiv(x, k) ==
    Sticky(x.s,
           DivFrom(Shl(x.m, 2 + Bits(k)), k, Len(Shl(x.m, 2 + Bits(k))), 0, << >>),
           x.e - 3 - Bits(k))

\* The float a decimal literal with one decimal digit denotes: 27.5 is
\* Lit(275). The literals of grid.py lie between -118.4 and 51.1.
Literals == [tenths \in -1184..511 |-> FDiv(FromInt(tenths), 10)]

Lit(tenths) == Literals[tenths]

\* -------------------------------------------------------------------- GeoGrid

\* x < y and x <= y.
FLt(x, y) == FCmp(x, y) < 0
FLe(x, y) == FCmp(x, y) <= 0

\* GeoGrid.COUNTRIES.
COUNTRIES ==
    [Spain  |-> [min_lat |-> Lit(270), max_lat |-> Lit(445),
                 min_lng |-> Lit(-185), max_lng |-> Lit(50)],
     France |-> [min_lat |-> Lit(413), max_lat |-> Lit(511),
                 min_lng |-> Lit(-55), max_lng |-> Lit(96)],
     Mexico |-> [min_lat |-> Lit(145), max_lat |-> Lit(327),
                 min_lng |-> Lit(-1184), max_lng |-> Lit(-860)]]

\* An entry put into COUNTRIES for a grid over lat 0-2, lng 0-2.
ScenarioCountries ==
    [Box02 |-> [min_lat |-> Lit(0), max_lat |-> Lit(20),
                min_lng |-> Lit(0), max_lng |-> Lit(20)]]

\* The bounds a GeoGrid driven directly looks up.
GridCountries == COUNTRIES @@ ScenarioCountries

\* The sequences of a sequence of sequences, one after the other.
RECURSIVE Concat(_)
Concat(ss) == IF ss = << >> THEN << >> ELSE Head(ss) \o Concat(Tail(ss))

\* Sector(id=f"{i}_{j}", lat=..., lng=..., lat_min=..., ...) of generate, for
\* i = row and j = col, each coordinate computed as the code computes it:
\* lat = min_lat + i * lat_step + lat_step / 2, from left to right.
Cell(min_lat, lat_step, min_lng, lng_step, row, col) ==
    [id |-> ToString(row) \o "_" \o ToString(col),
     lat |-> FAdd(FAdd(min_lat, FMul(row, lat_step)), FDiv(lat_step, 2)),
     lng |-> FAdd(FAdd(min_lng, FMul(col, lng_step)), FDiv(lng_step, 2)),
     lat_min |-> FAdd(min_lat, FMul(row, lat_step)),
     lat_max |-> FAdd(min_lat, FMul(row + 1, lat_step)),
     lng_min |-> FAdd(min_lng, FMul(col, lng_step)),
     lng_max |-> FAdd(min_lng, FMul(col + 1, lng_step)),
     is_land |-> TRUE]

\* The sector of row and col with the steps of generate:
\* lat_step = (max_lat - min_lat) / grid_size, and lng_step likewise.
Sector(bounds, n, row, col) ==
    Cell(bounds.min_lat, FDiv(FSub(bounds.max_lat, bounds.min_lat), n),
         bounds.min_lng, FDiv(FSub(bounds.max_lng, bounds.min_lng), n), row, col)

\* generate with range(grid_size + 1) in both loops.
generate_fencepost(c, n) ==
    Concat([r \in 1..(n + 1) |->
              [q \in 1..(n + 1) |-> Sector(GridCountries[c], n, r - 1, q - 1)]])

\* generate with the loops exchanged: j over the longitude outermost.
generate_column_major(c, n) ==
    Concat([q \in 1..n |->
              [r \in 1..n |-> Sector(GridCountries[c], n, r - 1, q - 1)]])

\* GeoGrid.generate for country c and grid_size n: for i in range(n), for j
\* in range(n), append.
generate(c, n) ==
    Concat([r \in 1..n |->
              [q \in 1..n |-> Sector(GridCountries[c], n, r - 1, q - 1)]])

\* _is_land that tests the mainland exclusions of Spain before the island
\* boxes.
_is_land_mainland_first(c, sector) ==
    LET lat == sector.lat
        lng == sector.lng
    IN  IF c = "Spain"
        THEN IF \/ FLt(lng, Lit(-95)) \/ FLt(Lit(30), lng)
                \/ FLt(Lit(432), lat) \/ FLt(lat, Lit(360))
                \/ FLt(Lit(428), lat) /\ FLt(lng, Lit(-15))
                \/ FLt(lat, Lit(365)) /\ FLt(Lit(-55), lng)
                \/ FLt(Lit(3), lng) /\ FLt(lat, Lit(420))
                \/ FLt(Lit(15), lng) \/ FLt(lng, Lit(-90))
             THEN FALSE
             ELSE IF /\ FLe(Lit(275), lat) /\ FLe(lat, Lit(295))
                     /\ FLe(Lit(-185), lng) /\ FLe(lng, Lit(-130))
             THEN ~(FLt(lng, Lit(-180)) /\ FLt(Lit(285), lat))
             ELSE IF /\ FLe(Lit(385), lat) /\ FLe(lat, Lit(400))
                     /\ FLe(Lit(10), lng) /\ FLe(lng, Lit(40))
             THEN TRUE
             ELSE /\ FLe(Lit(362), lat) /\ FLe(lat, Lit(433))
                  /\ FLe(Lit(-93), lng) /\ FLe(lng, Lit(30))
        ELSE LET bounds == GridCountries[c]
             IN  /\ FLe(bounds.min_lat, lat) /\ FLe(lat, bounds.max_lat)
                 /\ FLe(bounds.min_lng, lng) /\ FLe(lng, bounds.max_lng)

\* _is_land that, outside Spain, wants the whole sector strictly inside the
\* bounding box, not its center inside or on it.
_is_land_whole_sector(c, sector) ==
    IF c = "Spain"
    THEN _is_land_mainland_first(c, sector)
    ELSE LET bounds == GridCountries[c]
         IN  /\ FLt(bounds.min_lat, sector.lat_min)
             /\ FLt(sector.lat_max, bounds.max_lat)
             /\ FLt(bounds.min_lng, sector.lng_min)
             /\ FLt(sector.lng_max, bounds.max_lng)

\* GeoGrid._is_land(sector) of a grid over country c.
_is_land(c, sector) ==
    LET lat == sector.lat
        lng == sector.lng
    IN  IF c = "Spain"
        THEN IF /\ FLe(Lit(275), lat) /\ FLe(lat, Lit(295))
                /\ FLe(Lit(-185), lng) /\ FLe(lng, Lit(-130))
             THEN IF FLt(lng, Lit(-180)) /\ FLt(Lit(285), lat) THEN FALSE
                  ELSE IF FLt(Lit(-130), lng) /\ FLt(lat, Lit(280)) THEN FALSE
                  ELSE TRUE
             ELSE IF /\ FLe(Lit(385), lat) /\ FLe(lat, Lit(400))
                     /\ FLe(Lit(10), lng) /\ FLe(lng, Lit(40))
             THEN TRUE
             ELSE IF FLt(lng, Lit(-95)) THEN FALSE
             ELSE IF FLt(Lit(30), lng) THEN FALSE
             ELSE IF FLt(Lit(432), lat) THEN FALSE
             ELSE IF FLt(lat, Lit(360)) THEN FALSE
             ELSE IF FLt(Lit(428), lat) /\ FLt(lng, Lit(-15)) THEN FALSE
             ELSE IF FLt(Lit(425), lat) /\ FLt(Lit(30), lng) THEN FALSE
             ELSE IF FLt(lat, Lit(365)) /\ FLt(Lit(-55), lng) THEN FALSE
             ELSE IF FLt(Lit(3), lng) /\ FLt(lat, Lit(420)) THEN FALSE
             ELSE IF FLt(Lit(15), lng) THEN FALSE
             ELSE IF FLt(lng, Lit(-90)) THEN FALSE
             ELSE IF ~(/\ FLe(Lit(362), lat) /\ FLe(lat, Lit(433))
                       /\ FLe(Lit(-93), lng) /\ FLe(lng, Lit(30)))
             THEN FALSE
             ELSE TRUE
        ELSE LET bounds == GridCountries[c]
             IN  /\ FLe(bounds.min_lat, lat) /\ FLe(lat, bounds.max_lat)
                 /\ FLe(bounds.min_lng, lng) /\ FLe(lng, bounds.max_lng)

\* filter_water_sectors that removes the water sectors from self.sectors
\* while it iterates over it: the sector after a removed one is skipped.
RECURSIVE remove_while_iterating(_, _, _)
remove_while_iterating(c, secs, k) ==
    IF k > Len(secs)
    THEN secs
    ELSE IF _is_land(c, secs[k])
         THEN remove_while_iterating(c, [secs EXCEPT ![k].is_land = TRUE], k + 1)
         ELSE remove_while_iterating(c,
                  SubSeq(secs, 1, k - 1) \o SubSeq(secs, k + 1, Len(secs)), k + 1)

filter_water_in_place(c, secs) == remove_while_iterating(c, secs, 1)

\* GeoGrid.filter_water_sectors on self.sectors = secs: the land sectors, in
\* order, each with is_land set (_is_land does not read is_land).
filter_water_sectors(c, secs) ==
    SelectSeq([k \in 1..Len(secs) |-> [secs[k] EXCEPT !.is_land = TRUE]],
              LAMBDA sector : _is_land(c, sector))

\* A list of Sector objects held elsewhere (the list an earlier call
\* returned), as it reads after filter_water_sectors ran on self.sectors =
\* secs: the lists hold the same objects, and the call wrote is_land on each
\* object of secs, False on the ones it dropped.
is_land_written(c, secs, held) ==
    [k \in 1..Len(held) |->
        IF \E j \in 1..Len(secs) : secs[j].id = held[k].id
        THEN [held[k] EXCEPT !.is_land = _is_land(c, held[k])]
        ELSE held[k]]

\* --------------------------------------------------------------- ProxyRotator

\* The while loop of get_next: attempts counts the proxies looked at.
RECURSIVE get_next_loop(_, _, _, _)
get_next_loop(ps, cur, fl, attempts) ==
    IF attempts < Len(ps)
    THEN LET proxy == ps[(cur % Len(ps)) + 1]
         IN  IF proxy \notin fl
             THEN [proxy |-> proxy, current |-> cur + 1]
             ELSE get_next_loop(ps, cur + 1, fl, attempts + 1)
    ELSE [proxy |-> None, current |-> cur]

\* get_next without the test "proxy not in self.failed".
get_next_unfiltered(ps, cur, fl) ==
    IF Len(ps) = 0
    THEN [proxy |-> None, current |-> cur]
    ELSE [proxy |-> ps[(cur % Len(ps)) + 1], current |-> cur + 1]

\* get_next giving up one proxy early: "while attempts < len(self.proxies) - 1".
get_next_short(ps, cur, fl) ==
    IF Len(ps) = 0
    THEN [proxy |-> None, current |-> cur]
    ELSE get_next_loop(ps, cur, fl, 1)

\* get_next that does not count the failed proxies it passes over:
\* "self.current += 1" only on the proxy returned.
get_next_stuck(ps, cur, fl) ==
    IF Len(ps) = 0
    THEN [proxy |-> None, current |-> cur]
    ELSE LET r == get_next_loop(ps, cur, fl, 0)
         IN  [proxy |-> r.proxy, current |-> cur + 1]

\* get_next: the proxy returned and the cursor afterwards.
get_next(ps, cur, fl) ==
    IF Len(ps) = 0
    THEN [proxy |-> None, current |-> cur]
    ELSE get_next_loop(ps, cur, fl, 0)

\* mark_failed: the failed set afterwards.
mark_failed(fl, proxy) == fl \cup {proxy}

\* ------------------------------------------------------------ BusinessSpider

\* A search coroutine: its position (pc), its loop variable and proxy, the
\* attempt indices of the requests it issued (tries), the backoff sleeps it made
\* (waits), the value _request is being left with (ret: "places", "None", or
\* "-" outside that stretch), the places of that value and then of what search
\* returned (result), and how often it acquired and released a permit.
NoTask == [pc |-> "none", attempt |-> 0, proxy |-> None,
           tries |-> << >>, waits |-> << >>, ret |-> "-", result |-> << >>,
           acquired |-> 0, released |-> 0]

NewTask == [NoTask EXCEPT !.pc = "acquire"]

NotFetched == [calls |-> 0, exit |-> "none", result |-> << >>]

\* The records a 200 payload of sector s with n places yields.
Places(s, n) == [k \in 1..n |-> <<s, k>>]

\* Acquire that does not wait for a free permit.
AcquireNoWait(s) ==
    /\ task[s].pc = "acquire"
    /\ semaphore' = semaphore - 1
    /\ task' = [task EXCEPT ![s].pc = "jitter", ![s].acquired = @ + 1]
    /\ UNCHANGED <<country, grid_size, grid_sectors, grid_log, all_raw, unique,
                   data, extract_out, osm_data, osm_out>>
    /\ UNCHANGED <<proxies, current, failed, last, config, land, max_sectors,
                   sectors, stats, fetched, all_places, runpc, i>>

\* async with self.semaphore: a permit is free and taken; then the jitter sleep.
\* Any waiting task may take a free permit: asyncio wakes the waiters in
\* arrival order, which is one of the orders allowed here.
Acquire(s) ==
    /\ task[s].pc = "acquire"
    /\ semaphore > 0
    /\ semaphore' = semaphore - 1
    /\ task' = [task EXCEPT ![s].pc = "jitter", ![s].acquired = @ + 1]
    /\ UNCHANGED <<country, grid_size, grid_sectors, grid_log, all_raw, unique,
                   data, extract_out, osm_data, osm_out>>
    /\ UNCHANGED <<proxies, current, failed, last, config, land, max_sectors,
                   sectors, stats, fetched, all_places, runpc, i>>

\* The next iteration of "for attempt in range(3)" after a sleep: get_next and
\* _request up to the suspension inside session.get.
\* Try that ends the fetch when get_next has no proxy to give.
TryNeedsProxy(s) ==
    /\ \/ task[s].pc = "jitter"
       \/ task[s].pc = "backoff" /\ task[s].attempt + 1 < MaxAttempts
    /\ LET attempt == IF task[s].pc = "jitter" THEN 0 ELSE task[s].attempt + 1
           r == get_next(proxies, current, failed)
       IN  /\ current' = r.current
           /\ IF r.proxy = None
              THEN /\ task' = [task EXCEPT ![s].pc = "backoff",
                                           ![s].attempt = MaxAttempts - 1,
                                           ![s].proxy = None]
                   /\ stats' = stats
              ELSE /\ task' = [task EXCEPT ![s].pc = "request",
                                           ![s].attempt = attempt,
                                           ![s].proxy = r.proxy,
                                           ![s].tries = Append(@, attempt)]
                   /\ stats' = [stats EXCEPT !.requests = @ + 1]
    /\ UNCHANGED <<country, grid_size, grid_sectors, grid_log, all_raw, unique,
                   data, extract_out, osm_data, osm_out>>
    /\ UNCHANGED <<proxies, failed, last, config, land, max_sectors, sectors,
                   semaphore, fetched, all_places, runpc, i>>

Try(s) ==
    /\ \/ task[s].pc = "jitter"
       \/ task[s].pc = "backoff" /\ task[s].attempt + 1 < MaxAttempts
    /\ LET attempt == IF task[s].pc = "jitter" THEN 0 ELSE task[s].attempt + 1
           r == get_next(proxies, current, failed)
       IN  /\ current' = r.current
           /\ task' = [task EXCEPT ![s].pc = "request",
                                   ![s].attempt = attempt,
                                   ![s].proxy = r.proxy,
                                   ![s].tries = Append(@, attempt)]
           /\ stats' = [stats EXCEPT !.requests = @ + 1]
    /\ UNCHANGED <<country, grid_size, grid_sectors, grid_log, all_raw, unique,
                   data, extract_out, osm_data, osm_out>>
    /\ UNCHANGED <<proxies, failed, last, config, land, max_sectors, sectors,
                   semaphore, fetched, all_places, runpc, i>>

\* search returns: the permit is released by "async with".
Return(s, how, places) ==
    /\ semaphore' = semaphore + 1
    /\ task' = [task EXCEPT ![s].pc = "done", ![s].result = places,
                            ![s].ret = "-", ![s].released = @ + 1]
    /\ fetched' = [fetched EXCEPT ![s].exit = how, ![s].result = places]

\* Retry with a linear backoff: asyncio.sleep(2 * attempt).
RetryLinear(s) ==
    /\ task' = [task EXCEPT ![s].pc = "backoff", ![s].ret = "-",
                            ![s].waits = Append(@, BackoffBase * task[s].attempt)]
    /\ UNCHANGED <<country, grid_size, grid_sectors, grid_log, all_raw, unique,
                   data, extract_out, osm_data, osm_out>>
    /\ UNCHANGED <<semaphore, fetched>>

\* result is None: retry counted, then asyncio.sleep(2 ** attempt).
Retry(s) ==
    /\ task' = [task EXCEPT ![s].pc = "backoff", ![s].ret = "-",
                            ![s].waits = Append(@, Pow(BackoffBase, task[s].attempt))]
    /\ UNCHANGED <<country, grid_size, grid_sectors, grid_log, all_raw, unique,
                   data, extract_out, osm_data, osm_out>>
    /\ UNCHANGED <<semaphore, fetched>>

\* _request is left with the value v (the places, or None): the exits of
\* "async with session.get" and "async with ClientSession" are awaited before
\* search has the value, and the other tasks run while they are.
Leave(s, v, places) ==
    task' = [task EXCEPT ![s].pc = "closing", ![s].ret = v, ![s].result = places]

\* resp.status == 200 and _parse returns the places.
Response200(s) ==
    /\ task[s].pc = "request"
    /\ \E n \in RecordCounts :
          /\ stats' = [stats EXCEPT !.success = @ + 1, !.places = @ + n]
          /\ Leave(s, "places", Places(s, n))
    /\ UNCHANGED <<country, grid_size, grid_sectors, grid_log, all_raw, unique,
                   data, extract_out, osm_data, osm_out>>
    /\ UNCHANGED <<proxies, current, failed, last, config, land, max_sectors,
                   sectors, semaphore, fetched, all_places, runpc, i>>

\* resp.status == 200 and _parse raises (a placeId that is not hashable, at
\* "p.place_id not in seen"): the bare except of _request returns None.
Response200Raise(s) ==
    /\ task[s].pc = "request"
    /\ stats' = [stats EXCEPT !.success = @ + 1]
    /\ Leave(s, "None", << >>)
    /\ UNCHANGED <<country, grid_size, grid_sectors, grid_log, all_raw, unique,
                   data, extract_out, osm_data, osm_out>>
    /\ UNCHANGED <<proxies, current, failed, last, config, land, max_sectors,
                   sectors, semaphore, fetched, all_places, runpc, i>>

\* resp.status == 429.
Response429(s) ==
    /\ task[s].pc = "request"
    /\ stats' = [stats EXCEPT !.blocked = @ + 1]
    /\ failed' = IF task[s].proxy # None
                 THEN mark_failed(failed, task[s].proxy)
                 ELSE failed
    /\ Leave(s, "None", << >>)
    /\ UNCHANGED <<country, grid_size, grid_sectors, grid_log, all_raw, unique,
                   data, extract_out, osm_data, osm_out>>
    /\ UNCHANGED <<proxies, current, last, config, land, max_sectors, sectors,
                   semaphore, fetched, all_places, runpc, i>>

\* Any other status, a transport error, the timeout, or a CancelledError thrown
\* into the request: the else branch and the bare except both return None.
FailureKinds == {"status", "error", "timeout", "cancelled"}

\* ResponseOther without the bare except: the error leaves search, the
\* "async with" releases the permit, and gather raises it in run.
ResponseOtherRaises(s) ==
    /\ task[s].pc = "request"
    /\ semaphore' = semaphore + 1
    /\ task' = [task EXCEPT ![s].pc = "raised", ![s].released = @ + 1]
    /\ fetched' = [fetched EXCEPT ![s].exit = "raised"]
    /\ runpc' = "raised"
    /\ UNCHANGED <<country, grid_size, grid_sectors, grid_log, all_raw, unique,
                   data, extract_out, osm_data, osm_out>>
    /\ UNCHANGED <<proxies, current, failed, last, config, land, max_sectors,
                   sectors, stats, all_places, i>>

\* ResponseOther that marks the proxy failed, as a 429 does.
ResponseOtherMarks(s) ==
    /\ task[s].pc = "request"
    /\ failed' = IF task[s].proxy # None
                 THEN mark_failed(failed, task[s].proxy)
                 ELSE failed
    /\ Leave(s, "None", << >>)
    /\ UNCHANGED <<country, grid_size, grid_sectors, grid_log, all_raw, unique,
                   data, extract_out, osm_data, osm_out>>
    /\ UNCHANGED <<proxies, current, last, config, land, max_sectors, sectors,
                   semaphore, stats, fetched, all_places, runpc, i>>

ResponseOther(s) ==
    /\ task[s].pc = "request"
    /\ \E kind \in FailureKinds : Leave(s, "None", << >>)
    /\ UNCHANGED <<country, grid_size, grid_sectors, grid_log, all_raw, unique,
                   data, extract_out, osm_data, osm_out>>
    /\ UNCHANGED <<proxies, current, failed, last, config, land, max_sectors,
                   sectors, semaphore, stats, fetched, all_places, runpc, i>>

\* _request has returned to search. "if result is not None: return result";
\* else the retry is counted and the backoff sleep begins.
AfterRequest(s) ==
    /\ task[s].pc = "closing"
    /\ IF task[s].ret = "places"
       THEN /\ Return(s, "success", task[s].result)
            /\ stats' = stats
       ELSE /\ stats' = [stats EXCEPT !.retry = @ + 1]
            /\ Retry(s)
    /\ UNCHANGED <<country, grid_size, grid_sectors, grid_log, all_raw, unique,
                   data, extract_out, osm_data, osm_out>>
    /\ UNCHANGED <<proxies, current, failed, last, config, land, max_sectors,
                   sectors, all_places, runpc, i>>

\* GiveUp that queues the sector again instead of returning [].
GiveUpRequeue(s) ==
    /\ task[s].pc = "backoff"
    /\ ~(task[s].attempt + 1 < MaxAttempts)
    /\ semaphore' = semaphore + 1
    /\ task' = [task EXCEPT ![s] = NewTask]
    /\ fetched' = [fetched EXCEPT ![s].calls = @ + 1]
    /\ UNCHANGED <<country, grid_size, grid_sectors, grid_log, all_raw, unique,
                   data, extract_out, osm_data, osm_out>>
    /\ UNCHANGED <<proxies, current, failed, last, config, land, max_sectors,
                   sectors, stats, all_places, runpc, i>>

\* GiveUp that returns [] without leaving the "async with" block: the permit
\* stays taken.
GiveUpKeepsPermit(s) ==
    /\ task[s].pc = "backoff"
    /\ ~(task[s].attempt + 1 < MaxAttempts)
    /\ task' = [task EXCEPT ![s].pc = "done", ![s].result = << >>]
    /\ fetched' = [fetched EXCEPT ![s].exit = "exhausted", ![s].result = << >>]
    /\ UNCHANGED <<country, grid_size, grid_sectors, grid_log, all_raw, unique,
                   data, extract_out, osm_data, osm_out>>
    /\ UNCHANGED <<proxies, current, failed, last, config, land, max_sectors,
                   sectors, semaphore, stats, all_places, runpc, i>>

\* The loop over range(3) is exhausted after the last backoff: return [].
GiveUp(s) ==
    /\ task[s].pc = "backoff"
    /\ ~(task[s].attempt + 1 < MaxAttempts)
    /\ Return(s, "exhausted", << >>)
    /\ UNCHANGED <<country, grid_size, grid_sectors, grid_log, all_raw, unique,
                   data, extract_out, osm_data, osm_out>>
    /\ UNCHANGED <<proxies, current, failed, last, config, land, max_sectors,
                   sectors, stats, all_places, runpc, i>>

\* ------------------------------------------------- BusinessSpider._extract

\* A decoded JSON value: t is its Python type; s the text of a str, n the
\* value of a number, items the members of a dict (key k, value v, in
\* insertion order) or of a list (value v).
Null == [t |-> "null", s |-> "", n |-> 0, items |-> << >>]

Str(x) == [t |-> "str", s |-> x, n |-> 0, items |-> << >>]

Num(x) == [t |-> "num", s |-> "", n |-> x, items |-> << >>]

List(vs) ==
    [t |-> "list", s |-> "", n |-> 0,
     items |-> [e \in 1..Len(vs) |-> [k |-> "", v |-> vs[e]]]]

Dict(kvs) == [t |-> "dict", s |-> "", n |-> 0, items |-> kvs]

\* obj.get(key, default)
Get(obj, key, default) ==
    IF \E e \in 1..Len(obj.items) : obj.items[e].k = key
    THEN obj.items[CHOOSE e \in 1..Len(obj.items) : obj.items[e].k = key].v
    ELSE default

\* bool(v)
Truthy(v) ==
    CASE v.t = "null" -> FALSE
      [] v.t = "str"  -> v.s # ""
      [] v.t = "num"  -> v.n # 0
      [] OTHER        -> v.items # << >>

\* a or b
Or(a, b) == IF Truthy(a) THEN a ELSE b

\* The strings float() and int() accept, with their values.
StrToNum == [x \in {"41"} |-> 41]

\* float(v) and int(v) return rather than raise.
CanFloat(v) == v.t = "num" \/ (v.t = "str" /\ v.s \in DOMAIN StrToNum)

\* float(v)
Float(v) == IF v.t = "num" THEN v.n ELSE StrToNum[v.s]

\* f"{v}" for a number or a string
Format(v) == IF v.t = "num" THEN ToString(v.n) ELSE v.s

\* search descends while depth <= 15.
DepthLimit == 15

\* The sector center _extract is given.
base_lat == 405
base_lng == -37

\* The test of a dict in search and the Place it appends: no Place when the
\* test fails or the construction raises.
place_of(obj) ==
    LET name == Or(Get(obj, "title", Null), Get(obj, "name", Null))
        lat == Or(Get(obj, "lat", Null), Get(obj, "latitude", Null))
        lng == Or(Get(obj, "lng", Null), Get(obj, "longitude", Null))
        rating == Or(Get(obj, "rating", Num(0)), Num(0))
        reviews == Or(Get(obj, "reviews", Num(0)), Num(0))
    IN  IF /\ Truthy(name) /\ name.t = "str"
           /\ Truthy(lat) /\ Truthy(lng)
           /\ CanFloat(rating) /\ CanFloat(reviews)
           /\ CanFloat(lat) /\ CanFloat(lng)
        THEN <<[name |-> name.s,
                lat |-> IF Truthy(lat) THEN Float(lat) ELSE base_lat,
                lng |-> IF Truthy(lng) THEN Float(lng) ELSE base_lng,
                place_id |-> Or(Get(obj, "placeId", Str("")),
                                Str("lat" \o Format(lat) \o "lng" \o Format(lng)))]>>
        ELSE << >>

Max(S) == CHOOSE x \in S : \A y \in S : y <= x

\* search that ignores its depth.
RECURSIVE search_unbounded(_, _)
search_unbounded(obj, depth) ==
    IF obj.t \notin {"dict", "list"}
    THEN << >>
    ELSE (IF obj.t = "dict" THEN place_of(obj) ELSE << >>)
         \o Concat([e \in 1..Len(obj.items) |->
                       search_unbounded(obj.items[e].v, depth + 1)])

\* search that returns at a match.
RECURSIVE search_stop_at_match(_, _)
search_stop_at_match(obj, depth) ==
    IF depth > DepthLimit \/ obj.t \notin {"dict", "list"}
    THEN << >>
    ELSE IF obj.t = "dict" /\ place_of(obj) # << >>
         THEN place_of(obj)
         ELSE Concat([e \in 1..Len(obj.items) |->
                         search_stop_at_match(obj.items[e].v, depth + 1)])

\* search(obj, depth): the places it appends, in the order it appends them.
RECURSIVE search(_, _)
search(obj, depth) ==
    IF depth > DepthLimit \/ obj.t \notin {"dict", "list"}
    THEN << >>
    ELSE (IF obj.t = "dict" THEN place_of(obj) ELSE << >>)
         \o Concat([e \in 1..Len(obj.items) |-> search(obj.items[e].v, depth + 1)])

\* The depth of the deepest node search(obj, depth) gets past its first
\* test with (-1: none).
RECURSIVE deepest_examined(_, _)
deepest_examined(obj, depth) ==
    IF depth > DepthLimit \/ obj.t \notin {"dict", "list"}
    THEN -1
    ELSE Max({depth} \cup {deepest_examined(obj.items[e].v, depth + 1) :
                              e \in 1..Len(obj.items)})

\* _extract(data, base_lat, base_lng)
_extract(d) == search(d, 0)

\* "p.place_id not in seen" raises for a place_id that is a list or a dict.
Hashable(v) == v.t \notin {"list", "dict"}

\* The post-pass that keeps, for each place_id, the record seen last.
RECURSIVE unique_last_kept(_, _)
unique_last_kept(unique_so_far, places) ==
    IF places = << >>
    THEN unique_so_far
    ELSE unique_last_kept(
             SelectSeq(unique_so_far,
                       LAMBDA p : p.place_id # Head(places).place_id)
                 \o <<Head(places)>>,
             Tail(places))

\* The post-pass of _parse, "for p in places": p is appended when its
\* place_id is not among those seen.
RECURSIVE unique_places(_, _)
unique_places(unique_so_far, places) ==
    IF places = << >>
    THEN unique_so_far
    ELSE unique_places(
             IF \E k \in 1..Len(unique_so_far) :
                    unique_so_far[k].place_id = Head(places).place_id
             THEN unique_so_far
             ELSE Append(unique_so_far, Head(places)),
             Tail(places))

\* ---------------------------------------------------- BusinessSpider._parse

\* The html _parse is given, as the sequence of its tokens: a punctuation
\* mark (its type is the mark), a word outside quotes, a number, null, or a
\* string in double or in single quotes with the text s. The strings of the
\* pages hold no bracket, brace or semicolon, so that a token is a unit for
\* the patterns of _parse; white space, which the pages hold only after a
\* comma, a colon or "=", is left out.
Tok(type, s, n) == [type |-> type, s |-> s, n |-> n]

\* The strings of the pages that hold an apostrophe.
WithApostrophe == {"O'N"}

\* json.dumps(v), with its strings in the given quotes ("str" for double
\* quotes, "squoted" for single ones, as in a JavaScript literal).
RECURSIVE dumps(_, _)
dumps(v, quotes) ==
    LET member(e) ==
            (IF e > 1 THEN <<Tok(",", "", 0)>> ELSE << >>)
            \o (IF v.t = "dict"
                THEN <<Tok(quotes, v.items[e].k, 0), Tok(":", "", 0)>> ELSE << >>)
            \o dumps(v.items[e].v, quotes)
        members == Concat([e \in 1..Len(v.items) |-> member(e)])
    IN  CASE v.t = "null" -> <<Tok("null", "", 0)>>
          [] v.t = "str"  -> <<Tok(quotes, v.s, 0)>>
          [] v.t = "num"  -> <<Tok("num", "", v.n)>>
          [] v.t = "list" -> <<Tok("[", "", 0)>> \o members \o <<Tok("]", "", 0)>>
          [] v.t = "dict" -> <<Tok("{", "", 0)>> \o members \o <<Tok("}", "", 0)>>

Least(S) == CHOOSE x \in S : \A y \in S : x <= y

\* Where token j of html is of the given type.
Is(html, j, type) == j \in 1..Len(html) /\ html[j].type = type

IsWord(html, j, word) == Is(html, j, "word") /\ html[j].s = word

\* re.findall(r'AF_initDataCallback\s*\([^}]*data\s*:\s*(\[[^\]]+\])', html)[:1]:
\* after the first "AF_initDataCallback(" that matches, the last "data:"
\* that no "}" precedes and a "[" follows, captured from that "[" to the
\* first "]" after it, with something between the two.
af_matches(html) ==
    LET closes(p) == {q \in (p + 3)..Len(html) : Is(html, q, "]")}
        datas(a) ==
            {p \in (a + 2)..Len(html) :
                /\ IsWord(html, p, "data") /\ Is(html, p + 1, ":") /\ Is(html, p + 2, "[")
                /\ \A j \in (a + 2)..(p - 1) : ~Is(html, j, "}")
                /\ closes(p) # {}
                /\ Least(closes(p)) > p + 3}
        starts == {a \in 1..Len(html) :
                      /\ IsWord(html, a, "AF_initDataCallback") /\ Is(html, a + 1, "(")
                      /\ datas(a) # {}}
    IN  IF starts = {} THEN << >>
        ELSE LET p == Max(datas(Least(starts)))
             IN  <<SubSeq(html, p + 2, Least(closes(p)))>>

\* re.findall(r'window\.__INITIAL_STATE__\s*=\s*({.+?});', html)[:1]: from
\* the "{" after the first "window.__INITIAL_STATE__ =" that matches to the
\* first "}" before a ";", with something between the two.
state_matches(html) ==
    LET ends(a) == {q \in (a + 4)..Len(html) : Is(html, q, "}") /\ Is(html, q + 1, ";")}
        starts == {a \in 1..Len(html) :
                      /\ IsWord(html, a, "window.__INITIAL_STATE__")
                      /\ Is(html, a + 1, "=") /\ Is(html, a + 2, "{")
                      /\ ends(a) # {}}
    IN  IF starts = {} THEN << >>
        ELSE <<SubSeq(html, Least(starts) + 2, Least(ends(Least(starts))))>>

\* match.replace("'", '"'): a string in single quotes becomes one in double
\* quotes; a string with an apostrophe inside, in either quotes, ends at the
\* apostrophe and leaves text behind it that is no JSON.
replace(match) ==
    [j \in 1..Len(match) |->
        IF match[j].type \in {"str", "squoted"}
        THEN IF match[j].s \in WithApostrophe
             THEN Tok("invalid", match[j].s, 0)
             ELSE Tok("str", match[j].s, 0)
        ELSE match[j]]

\* dict[key] = v: a key met again keeps its place and takes the new value.
SetItem(items, key, v) ==
    IF \E e \in 1..Len(items) : items[e].k = key
    THEN [e \in 1..Len(items) |-> IF items[e].k = key THEN [k |-> key, v |-> v]
                                  ELSE items[e]]
    ELSE Append(items, [k |-> key, v |-> v])

\* The JSON value that starts at token pos, and the token after it; ok is
\* FALSE where json.loads raises. members reads the rest of a list or dict
\* (t) from pos on, after an opening mark or a comma; after_member goes on
\* from the member r it was given.
NoValue == [ok |-> FALSE, v |-> Null, next |-> 0]

RECURSIVE value(_, _)
RECURSIVE members(_, _, _, _)
after_member(toks, t, items, key, r) ==
    LET now == IF t = "list" THEN Append(items, [k |-> "", v |-> r.v])
               ELSE SetItem(items, key, r.v)
    IN  IF ~r.ok THEN NoValue
        ELSE IF Is(toks, r.next, ",") THEN members(toks, r.next + 1, t, now)
        ELSE IF Is(toks, r.next, IF t = "list" THEN "]" ELSE "}")
        THEN [ok |-> TRUE, v |-> [t |-> t, s |-> "", n |-> 0, items |-> now],
              next |-> r.next + 1]
        ELSE NoValue

members(toks, pos, t, items) ==
    IF t = "list"
    THEN after_member(toks, t, items, "", value(toks, pos))
    ELSE IF Is(toks, pos, "str") /\ Is(toks, pos + 1, ":")
    THEN after_member(toks, t, items, toks[pos].s, value(toks, pos + 2))
    ELSE NoValue

value(toks, pos) ==
    IF pos > Len(toks) THEN NoValue
    ELSE CASE toks[pos].type = "str"  -> [ok |-> TRUE, v |-> Str(toks[pos].s), next |-> pos + 1]
           [] toks[pos].type = "num"  -> [ok |-> TRUE, v |-> Num(toks[pos].n), next |-> pos + 1]
           [] toks[pos].type = "null" -> [ok |-> TRUE, v |-> Null, next |-> pos + 1]
           [] toks[pos].type = "["    ->
                IF Is(toks, pos + 1, "]")
                THEN [ok |-> TRUE, v |-> List(<< >>), next |-> pos + 2]
                ELSE members(toks, pos + 1, "list", << >>)
           [] toks[pos].type = "{"    ->
                IF Is(toks, pos + 1, "}")
                THEN [ok |-> TRUE, v |-> Dict(<< >>), next |-> pos + 2]
                ELSE members(toks, pos + 1, "dict", << >>)
           [] OTHER -> NoValue

\* json.loads(text): one value and nothing after it.
loads(toks) ==
    LET r == value(toks, 1)
    IN  IF r.ok /\ r.next = Len(toks) + 1 THEN r ELSE NoValue

\* The places _parse collects from the first match of a pattern: none when
\* json.loads raises (the bare except passes).
collected(matches) ==
    IF matches = << >> \/ ~loads(replace(matches[1])).ok
    THEN << >>
    ELSE _extract(loads(replace(matches[1])).v)

\* _parse(html, base_lat, base_lng): the places of the two patterns, then
\* the post-pass, which raises on a place_id that cannot be hashed.
_parse(html) ==
    LET places == collected(af_matches(html)) \o collected(state_matches(html))
    IN  IF \A k \in 1..Len(places) : Hashable(places[k].place_id)
        THEN [raised |-> FALSE, places |-> places,
              unique |-> unique_places(<< >>, places)]
        ELSE [raised |-> TRUE, places |-> places, unique |-> << >>]

\* --------------------------- OSMScraper._parse and MegaScraper._parse_osm

\* An element of the Overpass payload: the name tag as a sequence of
\* characters (empty when the tag is missing: tags.get("name", "")), the
\* other tags as texts ("" when missing), and lat, lon and id as << >> when
\* the element has none, <<x>> when it has x.
Element(name, street, housenumber, postcode, city, phone, amenity, shop, lat, lon, id) ==
    [name |-> name, street |-> street, housenumber |-> housenumber,
     postcode |-> postcode, city |-> city, phone |-> phone,
     amenity |-> amenity, shop |-> shop, lat |-> lat, lon |-> lon, id |-> id]

\* str.lstrip and str.strip on a sequence of characters.
RECURSIVE LStrip(_)
LStrip(cs) == IF cs # << >> /\ Head(cs) = " " THEN LStrip(Tail(cs)) ELSE cs

RECURSIVE Strip(_)
Strip(cs) ==
    LET l == LStrip(cs)
    IN  IF l # << >> /\ l[Len(l)] = " " THEN Strip(SubSeq(l, 1, Len(l) - 1)) ELSE l

\* ", ".join(parts)
RECURSIVE Join(_)
Join(parts) ==
    IF parts = << >> THEN ""
    ELSE IF Len(parts) = 1 THEN parts[1]
    ELSE parts[1] \o ", " \o Join(Tail(parts))

\* The address parts: street with house number, postcode (scraper_v2 only),
\* city.
address_parts(e, with_postcode) ==
    (IF e.street # ""
     THEN <<IF e.housenumber # "" THEN e.street \o " " \o e.housenumber
            ELSE e.street>>
     ELSE << >>)
    \o (IF with_postcode /\ e.postcode # "" THEN <<e.postcode>> ELSE << >>)
    \o (IF e.city # "" THEN <<e.city>> ELSE << >>)

\* tags.get("amenity") or tags.get("shop") or "business"
category_of(e) ==
    IF e.amenity # "" THEN e.amenity ELSE IF e.shop # "" THEN e.shop ELSE "business"

\* element.get("lat", base) followed by float(lat) if lat else base
coordinate_of(own, base) == IF own # << >> /\ own[1] # 0 THEN own[1] ELSE base

\* str(element.get("id", ""))
id_text(e) == IF e.id = << >> THEN "" ELSE ToString(e.id[1])

\* The Place OSMScraper._parse builds.
osm_place(e) ==
    [name |-> Strip(e.name),
     address |-> Join(address_parts(e, TRUE)),
     phone |-> e.phone,
     category |-> category_of(e),
     lat |-> coordinate_of(e.lat, base_lat),
     lng |-> coordinate_of(e.lon, base_lng),
     place_id |-> "osm_" \o id_text(e)]

\* The Business MegaScraper._parse_osm builds.
osm_business(e) ==
    [name |-> Strip(e.name),
     address |-> Join(address_parts(e, FALSE)),
     phone |-> e.phone,
     category |-> category_of(e),
     lat |-> coordinate_of(e.lat, base_lat),
     lng |-> coordinate_of(e.lon, base_lng),
     source |-> "osm",
     source_id |-> id_text(e)]

\* The loop that tests the name as given, not trimmed.
RECURSIVE osm_loop_untrimmed(_, _, _, _)
osm_loop_untrimmed(elements, seen, out, v2) ==
    IF elements = << >>
    THEN out
    ELSE LET e == Head(elements)
         IN  IF e.name = << >> \/ e.name \in seen
             THEN osm_loop_untrimmed(Tail(elements), seen, out, v2)
             ELSE osm_loop_untrimmed(Tail(elements), seen \cup {e.name},
                      Append(out, IF v2 THEN osm_place(e) ELSE osm_business(e)), v2)

\* "for element in data.get("elements", [])": skip the element when the
\* trimmed name is empty or seen, else remember the name and append.
RECURSIVE osm_loop(_, _, _, _)
osm_loop(elements, seen, out, v2) ==
    IF elements = << >>
    THEN out
    ELSE LET e == Head(elements)
             name == Strip(e.name)
         IN  IF name = << >> \/ name \in seen
             THEN osm_loop(Tail(elements), seen, out, v2)
             ELSE osm_loop(Tail(elements), seen \cup {name},
                           Append(out, IF v2 THEN osm_place(e) ELSE osm_business(e)),
                           v2)

\* OSMScraper._parse(data, base_lat, base_lng)
osm_parse(elements) == osm_loop(elements, {}, << >>, TRUE)

\* MegaScraper._parse_osm(data, sector)
_parse_osm(elements) == osm_loop(elements, {}, << >>, FALSE)

\* ------------------------------------------------------------------ Scraper.run

\* A batch that takes one sector too many: sectors[i:i+batch_size+1].
BatchOverlap == PySlice(sectors, i, i + config.batch_size + 1)

\* sectors[i:i+batch_size]
Batch == PySlice(sectors, i, i + config.batch_size)

InBatch(s) == \E k \in 1..Len(Batch) : Batch[k] = s

\* for i in range(0, total, batch_size): the tasks of the batch are created and
\* gathered.
Dispatch ==
    /\ runpc = "loop"
    /\ i < Len(sectors)
    /\ task' = [s \in DOMAIN task |-> IF InBatch(s) THEN NewTask ELSE task[s]]
    /\ fetched' = [s \in DOMAIN fetched |->
                     IF InBatch(s)
                     THEN [fetched[s] EXCEPT !.calls = @ + 1]
                     ELSE fetched[s]]
    /\ runpc' = "gather"
    /\ UNCHANGED <<country, grid_size, grid_sectors, grid_log, all_raw, unique,
                   data, extract_out, osm_data, osm_out>>
    /\ UNCHANGED <<proxies, current, failed, last, config, land, max_sectors,
                   sectors, semaphore, stats, all_places, i>>

RECURSIVE Flatten(_)
Flatten(ss) == IF ss = << >> THEN << >> ELSE Head(ss) \o Flatten(Tail(ss))

\* Absorb that goes on as soon as one task of the batch is done (a wait for
\* the first completed instead of gather), taking the results there are.
AbsorbFirstDone ==
    /\ runpc = "gather"
    /\ \E k \in 1..Len(Batch) : task[Batch[k]].pc = "done"
    /\ all_places' = all_places \o
                     Flatten([k \in 1..Len(Batch) |-> task[Batch[k]].result])
    /\ task' = [s \in DOMAIN task |->
                  IF InBatch(s) /\ task[s].pc = "done" THEN NoTask ELSE task[s]]
    /\ i' = i + config.batch_size
    /\ runpc' = "loop"
    /\ UNCHANGED <<country, grid_size, grid_sectors, grid_log, all_raw, unique,
                   data, extract_out, osm_data, osm_out>>
    /\ UNCHANGED <<proxies, current, failed, last, config, land, max_sectors,
                   sectors, semaphore, stats, fetched>>

\* Absorb that takes the results of the batch last task first, as a loop over
\* the tasks in another order than they were created in would.
AbsorbReversed ==
    /\ runpc = "gather"
    /\ \A k \in 1..Len(Batch) : task[Batch[k]].pc = "done"
    /\ all_places' = all_places \o
                     Flatten([k \in 1..Len(Batch) |->
                                task[Batch[Len(Batch) + 1 - k]].result])
    /\ task' = [s \in DOMAIN task |-> IF InBatch(s) THEN NoTask ELSE task[s]]
    /\ i' = i + config.batch_size
    /\ runpc' = "loop"
    /\ UNCHANGED <<country, grid_size, grid_sectors, grid_log, all_raw, unique,
                   data, extract_out, osm_data, osm_out>>
    /\ UNCHANGED <<proxies, current, failed, last, config, land, max_sectors,
                   sectors, semaphore, stats, fetched>>

\* gather returns the results in task order; all_places.extend for each.
Absorb ==
    /\ runpc = "gather"
    /\ \A k \in 1..Len(Batch) : task[Batch[k]].pc = "done"
    /\ all_places' = all_places \o
                     Flatten([k \in 1..Len(Batch) |-> task[Batch[k]].result])
    /\ task' = [s \in DOMAIN task |-> IF InBatch(s) THEN NoTask ELSE task[s]]
    /\ i' = i + config.batch_size
    /\ runpc' = "loop"
    /\ UNCHANGED <<country, grid_size, grid_sectors, grid_log, all_raw, unique,
                   data, extract_out, osm_data, osm_out>>
    /\ UNCHANGED <<proxies, current, failed, last, config, land, max_sectors,
                   sectors, semaphore, stats, fetched>>

\* The range is exhausted: connector.close(), _save, return.
Finish ==
    /\ runpc = "loop"
    /\ ~(i < Len(sectors))
    /\ runpc' = "done"
    /\ UNCHANGED <<country, grid_size, grid_sectors, grid_log, all_raw, unique,
                   data, extract_out, osm_data, osm_out>>
    /\ UNCHANGED <<proxies, current, failed, last, config, land, max_sectors,
                   sectors, semaphore, stats, task, fetched, all_places, i>>

\* The land sectors, and the truncation "if max_sectors: sectors[:max_sectors]".
LandSectors(n) == [k \in 1..n |-> k]

\* max_sectors is << >> when not given (None) and <<m>> when given as m.
Truncate(secs, m) ==
    IF m # << >> /\ m[1] # 0 THEN PySlice(secs, 0, m[1]) ELSE secs

\* The countries runs are started with: a supported one and one that is not
\* a key of COUNTRIES.
RunCountries == {"Spain", "Atlantis"}

\* Where a specification does not drive the GeoGrid object or the merge.
NoGrid == grid_size = 1 /\ grid_sectors = << >> /\ grid_log = << >>

NoDedup == all_raw = << >> /\ unique = << >>

\* Where a specification extracts nothing: the payload is JSON null.
NoExtract == data = Null /\ extract_out = << >>

\* Where a specification parses no Overpass payload.
NoOsm == osm_data = << >> /\ osm_out = << >>

\* Where a specification drives no run: no proxies, no sectors, no task.
NoRun ==
    /\ proxies = << >>
    /\ current = 0
    /\ failed = {}
    /\ last = [op |-> "none", value |-> None]
    /\ config = [max_concurrent |-> 1, batch_size |-> 1]
    /\ land = 0
    /\ max_sectors = << >>
    /\ sectors = << >>
    /\ semaphore = config.max_concurrent
    /\ stats = [requests |-> 0, success |-> 0, blocked |-> 0, retry |-> 0, places |-> 0]
    /\ task = [s \in 1..land |-> NoTask]
    /\ fetched = [s \in 1..land |-> NotFetched]
    /\ all_places = << >>
    /\ runpc = "done"
    /\ i = 0

\* GeoGrid(country) that falls back to a default for a country it does not
\* know, instead of raising.
BuildGridDefault ==
    /\ runpc = "grid"
    /\ sectors' = Truncate(LandSectors(land), max_sectors)
    /\ runpc' = "loop"
    /\ UNCHANGED <<country, grid_size, grid_sectors, grid_log, all_raw, unique,
                   data, extract_out, osm_data, osm_out>>
    /\ UNCHANGED <<proxies, current, failed, last, config, land, max_sectors,
                   semaphore, stats, task, fetched, all_places, i>>

\* grid = GeoGrid(country=country, ...): the constructor raises ValueError for
\* a country that is no key of COUNTRIES and run ends with it, before the
\* spider and its semaphore exist. Otherwise generate, filter_water_sectors
\* and the truncation give the sectors of the run.
BuildGrid ==
    /\ runpc = "grid"
    /\ IF country \in DOMAIN COUNTRIES
       THEN /\ sectors' = Truncate(LandSectors(land), max_sectors)
            /\ runpc' = "loop"
       ELSE /\ sectors' = sectors
            /\ runpc' = "error"
    /\ UNCHANGED <<country, grid_size, grid_sectors, grid_log, all_raw, unique,
                   data, extract_out, osm_data, osm_out>>
    /\ UNCHANGED <<proxies, current, failed, last, config, land, max_sectors,
                   semaphore, stats, task, fetched, all_places, i>>

Init ==
    /\ proxies \in {SubSeq(ProxyFile, 1, n) : n \in 0..Min(RunProxies, Len(ProxyFile))}
    /\ current = 0
    /\ failed = {}
    /\ last = [op |-> "none", value |-> None]
    /\ config \in Profiles
    /\ land \in 0..MaxSectors
    /\ Len(proxies) = 0 \/ land <= MaxProxySectors
    /\ max_sectors \in {<< >>} \cup {<<m>> : m \in 0..(MaxSectors - 1)}
    \* The truncation does not depend on the proxies: it is tried in the
    \* runs without; and a max_sectors of 0 in the runs of few sectors.
    /\ Len(proxies) = 0 \/ max_sectors = << >>
    /\ max_sectors # <<0>> \/ land <= MaxProxySectors
    /\ sectors = << >>
    /\ semaphore = config.max_concurrent
    /\ stats = [requests |-> 0, success |-> 0, blocked |-> 0, retry |-> 0, places |-> 0]
    /\ task = [s \in 1..land |-> NoTask]
    /\ fetched = [s \in 1..land |-> NotFetched]
    /\ all_places = << >>
    /\ runpc = "grid"
    /\ i = 0
    /\ country \in RunCountries
    /\ NoGrid
    /\ NoDedup
    /\ NoExtract
    /\ NoOsm

Next ==
    \/ BuildGrid
    \/ Dispatch
    \/ Absorb
    \/ Finish
    \/ \E s \in DOMAIN task : Acquire(s)
    \/ \E s \in DOMAIN task : Try(s)
    \/ \E s \in DOMAIN task : Response200(s)
    \/ \E s \in DOMAIN task : Response200Raise(s)
    \/ \E s \in DOMAIN task : Response429(s)
    \/ \E s \in DOMAIN task : ResponseOther(s)
    \/ \E s \in DOMAIN task : AfterRequest(s)
    \/ \E s \in DOMAIN task : GiveUp(s)

Spec == Init /\ [][Next]_vars

\* The run under the scheduling the event loop gives it. The run coroutine
\* goes on whenever it can (it is resumed when gather has every result). A
\* task that waits for a permit, sleeps (jitter, backoff) or has ended its
\* last backoff is resumed when it can go on: the waiters of an
\* asyncio.Semaphore are woken in arrival order, a sleep ends, and the exits
\* of the context managers of _request complete. Every issued request
\* completes: with a response, an error, or the ClientTimeout of the session.
RunProceeds == WF_vars(BuildGrid \/ Dispatch \/ Absorb \/ Finish)

TaskResumed(s) ==
    WF_vars(s \in DOMAIN task /\ (\/ Acquire(s)
                                   \/ Try(s)
                                   \/ AfterRequest(s)
                                   \/ GiveUp(s)))

RequestCompletes(s) ==
    WF_vars(s \in DOMAIN task /\ (\/ Response200(s)
                                   \/ Response200Raise(s)
                                   \/ Response429(s)
                                   \/ ResponseOther(s)))

Fairness ==
    /\ RunProceeds
    /\ \A s \in 1..FairSectors : TaskResumed(s) /\ RequestCompletes(s)

\* The runs followed to their end: those without a sector limit, of at most
\* FairSectors land sectors without proxies, and of at most FairProxySectors
\* with at most FairProxies proxies.
InitFair ==
    /\ Init
    /\ max_sectors = << >>
    /\ land <= FairSectors
    /\ Len(proxies) <= FairProxies
    /\ Len(proxies) = 0 \/ land <= FairProxySectors

SpecFair == InitFair /\ [][Next]_vars /\ Fairness

\* ------------------------------------------------------- a run that is killed

\* The run is killed while it awaits gather: the main task is cancelled and
\* no later batch is dispatched.
Kill ==
    /\ runpc = "gather"
    /\ runpc' = "killed"
    /\ UNCHANGED <<country, grid_size, grid_sectors, grid_log, all_raw, unique,
                   data, extract_out, osm_data, osm_out>>
    /\ UNCHANGED <<proxies, current, failed, last, config, land, max_sectors,
                   sectors, semaphore, stats, task, fetched, all_places, i>>

\* Cancel with the permit released by hand after the sleeps rather than by
\* "async with": the cancelled task keeps its permit.
CancelNoRelease(s) ==
    /\ runpc = "killed"
    /\ task[s].pc \in {"acquire", "jitter", "backoff", "closing"}
    /\ task' = [task EXCEPT ![s].pc = "cancelled"]
    /\ fetched' = [fetched EXCEPT ![s].exit = "cancelled"]
    /\ UNCHANGED <<country, grid_size, grid_sectors, grid_log, all_raw, unique,
                   data, extract_out, osm_data, osm_out>>
    /\ UNCHANGED <<proxies, current, failed, last, config, land, max_sectors,
                   sectors, semaphore, stats, all_places, runpc, i>>

\* A task of the killed run receives CancelledError in the exit of "async with
\* session.get", which is inside the try of _request: the bare except returns
\* None in place of the places the response gave.
CancelSwallowed(s) ==
    /\ runpc = "killed"
    /\ task[s].pc = "closing"
    /\ task[s].ret = "places"
    /\ task' = [task EXCEPT ![s].ret = "None", ![s].result = << >>]
    /\ UNCHANGED <<country, grid_size, grid_sectors, grid_log, all_raw, unique,
                   data, extract_out, osm_data, osm_out>>
    /\ UNCHANGED <<proxies, current, failed, last, config, land, max_sectors,
                   sectors, semaphore, stats, fetched, all_places, runpc, i>>

\* A task of the killed run receives CancelledError at an await it is
\* suspended in where nothing catches it: waiting for a permit it leaves
\* without one; in the jitter or backoff sleep, or in the exit of "async with
\* ClientSession" (outside the try of _request), it leaves the "async with"
\* body of search, which releases the permit.
Cancel(s) ==
    /\ runpc = "killed"
    /\ task[s].pc \in {"acquire", "jitter", "backoff", "closing"}
    /\ LET held == task[s].pc # "acquire"
       IN  /\ semaphore' = IF held THEN semaphore + 1 ELSE semaphore
           /\ task' = [task EXCEPT ![s].pc = "cancelled",
                                   ![s].released = IF held THEN @ + 1 ELSE @]
    /\ fetched' = [fetched EXCEPT ![s].exit = "cancelled"]
    /\ UNCHANGED <<country, grid_size, grid_sectors, grid_log, all_raw, unique,
                   data, extract_out, osm_data, osm_out>>
    /\ UNCHANGED <<proxies, current, failed, last, config, land, max_sectors,
                   sectors, stats, all_places, runpc, i>>

NextKill ==
    \/ Next
    \/ Kill
    \/ \E s \in DOMAIN task : CancelSwallowed(s)
    \/ \E s \in DOMAIN task : Cancel(s)

\* Being killed depends neither on the proxies nor on the sector limit: the
\* killed runs have none, and at most KillSectors land sectors.
InitKill ==
    /\ Init
    /\ proxies = << >>
    /\ max_sectors = << >>
    /\ land <= KillSectors

SpecKill == InitKill /\ [][NextKill]_vars

\* ------------------------------------------- the rotator driven directly

InitRotator ==
    /\ proxies \in SeqsUpTo(ProxyNames, MaxProxies)
    /\ current = 0
    /\ failed = {}
    /\ last = [op |-> "none", value |-> None]
    /\ config \in Profiles
    /\ land = 0
    /\ max_sectors = << >>
    /\ sectors = << >>
    /\ semaphore = config.max_concurrent
    /\ stats = [requests |-> 0, success |-> 0, blocked |-> 0, retry |-> 0, places |-> 0]
    /\ task = [s \in 1..land |-> NoTask]
    /\ fetched = [s \in 1..land |-> NotFetched]
    /\ all_places = << >>
    /\ runpc = "loop"
    /\ i = 0
    /\ country = "Spain"
    /\ NoGrid
    /\ NoDedup
    /\ NoExtract
    /\ NoOsm

\* A call of get_next.
CallGetNext ==
    /\ current < MaxCurrent
    /\ LET r == get_next(proxies, current, failed)
       IN  /\ current' = r.current
           /\ last' = [op |-> "get_next", value |-> r.proxy]
    /\ UNCHANGED <<country, grid_size, grid_sectors, grid_log, all_raw, unique,
                   data, extract_out, osm_data, osm_out>>
    /\ UNCHANGED <<proxies, failed, config, land, max_sectors, sectors,
                   semaphore, stats, task, fetched, all_places, runpc, i>>

\* A call of mark_failed(p).
CallMarkFailed(p) ==
    /\ failed' = mark_failed(failed, p)
    /\ last' = [op |-> "mark_failed", value |-> None]
    /\ UNCHANGED <<country, grid_size, grid_sectors, grid_log, all_raw, unique,
                   data, extract_out, osm_data, osm_out>>
    /\ UNCHANGED <<proxies, current, config, land, max_sectors, sectors,
                   semaphore, stats, task, fetched, all_places, runpc, i>>

NextRotator ==
    \/ CallGetNext
    \/ \E p \in ProxyNames : CallMarkFailed(p)

SpecRotator == InitRotator /\ [][NextRotator]_vars

\* --------------------------------------------------- deduplicate_businesses

\* A name is the sequence of its characters. str.lower on the characters used.
Lower(c) ==
    CASE c = "B" -> "b"
      [] c = "C" -> "c"
      [] c = "S" -> "s"
      [] OTHER -> c

\* The characters the pattern \w matches: letters, digits and the underscore.
WordChars == {"a", "b", "c", "e", "f", "l", "o", "r", "s",
              "B", "C", "S", "1", "_"}

\* re.sub(r'[^\w]', '', self.name.lower())
name_clean(name) ==
    SelectSeq([k \in 1..Len(name) |-> Lower(name[k])], LAMBDA c : c \in WordChars)

\* round(x, 3) of a coordinate given in units of 0.0001 degree: the sign
\* (which the text of a float shows, "-0.0") and the thousandths. A fourth
\* decimal of 5 is not among the inputs: there round goes by the binary
\* expansion of the float.
Round3(x) ==
    LET a == IF x < 0 THEN -x ELSE x
    IN  [neg |-> x < 0,
         milli |-> IF a % 10 < 5 THEN a \div 10 ELSE a \div 10 + 1]

\* A coordinate in units of 0.0001 degree as it is, not rounded.
Exact(x) == [neg |-> x < 0, milli |-> x]

\* dedup_key without the rounding of the coordinates.
dedup_key_exact(biz) ==
    <<PySlice(name_clean(biz.name), 0, KeyNameLen), Exact(biz.lat), Exact(biz.lng)>>

\* Business.dedup_key: f"{name_clean}_{lat_round}_{lng_round}". The three
\* parts determine the text and the text determines them (the cleaned name
\* has no "." and no "-"), so the key is the triple.
dedup_key(biz) ==
    <<PySlice(name_clean(biz.name), 0, KeyNameLen), Round3(biz.lat), Round3(biz.lng)>>

\* The dict seen is the sequence of its items in insertion order; the index
\* of a key in it, 0 when it is not there.
KeyIndex(seen, key) ==
    IF \E k \in 1..Len(seen) : seen[k].key = key
    THEN CHOOSE k \in 1..Len(seen) : seen[k].key = key
    ELSE 0

\* The test of the loop body for a key that is stored: a strictly longer
\* address, or else a phone where the stored record has none.
Replaces(biz, existing) ==
    \/ Len(biz.address) > Len(existing.address)
    \/ biz.phone # "" /\ existing.phone = ""

\* The loop body that adds the better record instead of storing it under
\* its key.
dedup_step_append(seen, biz) ==
    LET key == dedup_key(biz)
        k == KeyIndex(seen, key)
    IN  IF k = 0 \/ Replaces(biz, seen[k].biz)
        THEN Append(seen, [key |-> key, biz |-> biz])
        ELSE seen

\* The loop body that never replaces a stored record.
dedup_step_first_wins(seen, biz) ==
    LET key == dedup_key(biz)
        k == KeyIndex(seen, key)
    IN  IF k = 0 THEN Append(seen, [key |-> key, biz |-> biz]) ELSE seen

\* The loop body that also replaces on an address of the same length.
dedup_step_longer_or_equal(seen, biz) ==
    LET key == dedup_key(biz)
        k == KeyIndex(seen, key)
    IN  IF k = 0
        THEN Append(seen, [key |-> key, biz |-> biz])
        ELSE IF \/ Len(biz.address) >= Len(seen[k].biz.address)
                \/ biz.phone # "" /\ seen[k].biz.phone = ""
             THEN [seen EXCEPT ![k].biz = biz]
             ELSE seen

\* The loop body that fills the stored record's gaps from the incoming one.
dedup_step_blend(seen, biz) ==
    LET key == dedup_key(biz)
        k == KeyIndex(seen, key)
    IN  IF k = 0
        THEN Append(seen, [key |-> key, biz |-> biz])
        ELSE [seen EXCEPT
                ![k].biz.address = IF Len(biz.address) > Len(@) THEN biz.address ELSE @,
                ![k].biz.phone = IF @ = "" THEN biz.phone ELSE @]

\* The body of "for biz in businesses": an assignment to a stored key keeps
\* the key's place in the dict.
dedup_step(seen, biz) ==
    LET key == dedup_key(biz)
        k == KeyIndex(seen, key)
    IN  IF k = 0
        THEN Append(seen, [key |-> key, biz |-> biz])
        ELSE IF Replaces(biz, seen[k].biz)
             THEN [seen EXCEPT ![k].biz = biz]
             ELSE seen

RECURSIVE dedup_loop(_, _)
dedup_loop(seen, businesses) ==
    IF businesses = << >>
    THEN seen
    ELSE dedup_loop(dedup_step(seen, Head(businesses)), Tail(businesses))

\* deduplicate_businesses that lists the values newest key first.
deduplicate_newest_first(businesses) ==
    LET seen == dedup_loop(<< >>, businesses)
    IN  [k \in 1..Len(seen) |-> seen[Len(seen) + 1 - k].biz]

\* deduplicate_businesses: list(seen.values())
deduplicate_businesses(businesses) ==
    LET seen == dedup_loop(<< >>, businesses)
    IN  [k \in 1..Len(seen) |-> seen[k].biz]

\* The names, and the coordinates in units of 0.0001 degree.
CafeSol == <<"C", "a", "f", "e", " ", "S", "o", "l">>
CafeSolDash == <<"c", "a", "f", "e", "-", "s", "o", "l">>
CafeSolUnderscore == <<"C", "a", "f", "e", "_", "S", "o", "l">>
Bar == <<"B", "a", "r">>

Phones == {"", "555"}

Business(name, address, phone, lat, lng) ==
    [name |-> name, address |-> address, phone |-> phone, lat |-> lat, lng |-> lng]

\* The records lists are built from: "Cafe Sol" at (40.0001, -3.0001) and at
\* (40.0002, -3.0002), which round to the same thousandths, with and without
\* address and phone; "cafe-sol" there with an address as long as "Main St";
\* "Cafe Sol" at (40.0006, -3.0001), which rounds to 40.001; "Bar"; and
\* "Cafe_Sol".
Businesses ==
    {Business(CafeSol, a, p, c[1], c[2]) :
        a \in {"", "Main St"}, p \in Phones,
        c \in {<<400001, -30001>>, <<400002, -30002>>}}
    \cup {Business(CafeSolDash, "Calle 1", p, 400001, -30001) : p \in Phones}
    \cup {Business(CafeSol, "Main St", "", 400006, -30001)}
    \cup {Business(Bar, a, "", 400001, -30001) : a \in {"", "Main St"}}
    \cup {Business(CafeSolUnderscore, "Main St", "", 400001, -30001)}

InitDedup ==
    /\ all_raw \in SeqsUpTo(Businesses, MaxRaw)
    /\ unique = << >>
    /\ NoGrid
    /\ NoExtract
    /\ NoOsm
    /\ country = "Spain"
    /\ NoRun

\* The list the next call is given: all_raw, then the list the call before
\* returned.
DedupInput(p) == IF p = 1 THEN all_raw ELSE unique[p - 1]

\* unique = deduplicate_businesses(...)
Deduplicate ==
    /\ Len(unique) < MaxPasses
    /\ unique' = Append(unique, deduplicate_businesses(DedupInput(Len(unique) + 1)))
    /\ UNCHANGED <<all_raw, country, grid_size, grid_sectors, grid_log,
                   data, extract_out, osm_data, osm_out>>
    /\ UNCHANGED <<proxies, current, failed, last, config, land, max_sectors,
                   sectors, semaphore, stats, task, fetched, all_places, runpc, i>>

NextDedup == Deduplicate

SpecDedup == InitDedup /\ [][NextDedup]_vars

\* ----------------------------------------------- the GeoGrid driven directly

\* GeoGrid.get_stats: water_elimination is the quotient water/total, kept as
\* the pair of its operands.
get_stats(c, n, secs) ==
    LET total == n * n
        land_sectors == Len(secs)
        water == total - land_sectors
    IN  [country |-> c,
         grid_size |-> n,
         total_sectors |-> total,
         land_sectors |-> land_sectors,
         water_sectors |-> water,
         water_elimination |-> <<water, total>>,
         estimated_requests |-> land_sectors]

InitGrid ==
    /\ country \in DOMAIN GridCountries
    /\ grid_size \in 1..MaxGrid
    /\ grid_sectors = << >>
    /\ grid_log = << >>
    /\ NoDedup
    /\ NoExtract
    /\ NoOsm
    /\ NoRun

\* The calls of filter_water_sectors in the log.
FilterCalls == {k \in 1..Len(grid_log) : grid_log[k].op = "filter_water_sectors"}

\* grid.generate()
Generate ==
    /\ grid_sectors' = generate(country, grid_size)
    /\ grid_log' = <<[op |-> "generate", ret |-> grid_sectors']>>
    /\ UNCHANGED <<country, grid_size, all_raw, unique, data, extract_out, osm_data, osm_out>>
    /\ UNCHANGED <<proxies, current, failed, last, config, land, max_sectors,
                   sectors, semaphore, stats, task, fetched, all_places, runpc, i>>

\* filter_water_sectors that returns the land sectors and leaves
\* self.sectors alone.
FilterWaterSectorsPure ==
    /\ Cardinality(FilterCalls) < MaxFilterCalls
    /\ LET ret == filter_water_sectors(country, grid_sectors)
       IN  grid_log' = Append(grid_log, [op |-> "filter_water_sectors", ret |-> ret])
    /\ UNCHANGED <<grid_sectors, country, grid_size, all_raw, unique, data, extract_out, osm_data, osm_out>>
    /\ UNCHANGED <<proxies, current, failed, last, config, land, max_sectors,
                   sectors, semaphore, stats, task, fetched, all_places, runpc, i>>

\* grid.filter_water_sectors(). The lists the earlier calls returned hold
\* the Sector objects of self.sectors and show what the call writes on them.
FilterWaterSectors ==
    /\ Cardinality(FilterCalls) < MaxFilterCalls
    /\ grid_sectors' = filter_water_sectors(country, grid_sectors)
    /\ grid_log' = Append([k \in 1..Len(grid_log) |->
                              [grid_log[k] EXCEPT
                                  !.ret = is_land_written(country, grid_sectors, @)]],
                          [op |-> "filter_water_sectors", ret |-> grid_sectors'])
    /\ UNCHANGED <<country, grid_size, all_raw, unique, data, extract_out, osm_data, osm_out>>
    /\ UNCHANGED <<proxies, current, failed, last, config, land, max_sectors,
                   sectors, semaphore, stats, task, fetched, all_places, runpc, i>>

NextGrid ==
    \/ Generate
    \/ FilterWaterSectors

SpecGrid == InitGrid /\ [][NextGrid]_vars

\* ------------------------------------------------ _extract driven directly

\* A key a dict does not have.
Absent == [t |-> "absent", s |-> "", n |-> 0, items |-> << >>]

\* The dict of the pairs whose value is not Absent, in the order given.
DictOf(kvs) == Dict(SelectSeq(kvs, LAMBDA kv : kv.v # Absent))

TitleValues == {Absent, Str(""), Str("T"), Num(5)}
NameValues == {Absent, Str(""), Str("N")}
LatValues == {Absent, Num(0), Num(40), Str("x")}
LatitudeValues == {Absent, Num(41), Str("41")}
LngValues == {Absent, Num(0), Num(-3)}
LongitudeValues == {Absent, Num(-4)}

\* A dict without children.
Leaf(title, name, lat, latitude, lng, longitude) ==
    DictOf(<<[k |-> "title", v |-> title], [k |-> "name", v |-> name],
             [k |-> "lat", v |-> lat], [k |-> "latitude", v |-> latitude],
             [k |-> "lng", v |-> lng], [k |-> "longitude", v |-> longitude]>>)

Leaves ==
    {Leaf(title, name, lat, latitude, lng, longitude) :
        title \in TitleValues, name \in NameValues, lat \in LatValues,
        latitude \in LatitudeValues, lng \in LngValues,
        longitude \in LongitudeValues}

\* The children put inside a place-shaped dict: a place, a place with an
\* identifier, a dict that is no place, a scalar.
Children ==
    {Leaf(Absent, Str("B"), Num(3), Absent, Num(4), Absent),
     DictOf(<<[k |-> "title", v |-> Str("B")], [k |-> "latitude", v |-> Num(3)],
              [k |-> "longitude", v |-> Num(4)], [k |-> "placeId", v |-> Str("b1")]>>),
     Leaf(Absent, Str("B"), Absent, Absent, Absent, Absent),
     Str("B")}

ParentShapes == {"child last", "child first", "children in a list", "no place"}

\* A dict with a child value; all but the last shape are place-shaped.
Parent(shape, child) ==
    LET own == <<[k |-> "name", v |-> Str("A")], [k |-> "lat", v |-> Num(1)],
                 [k |-> "lng", v |-> Num(2)]>>
    IN  CASE shape = "child last" -> Dict(own \o <<[k |-> "child", v |-> child]>>)
          [] shape = "child first" -> Dict(<<[k |-> "child", v |-> child]>> \o own)
          [] shape = "children in a list" ->
                Dict(own \o <<[k |-> "children", v |-> List(<<child, child>>)]>>)
          [] OTHER -> Dict(<<[k |-> "results", v |-> List(<<child>>)]>>)

Parents == {Parent(shape, child) : shape \in ParentShapes, child \in Children}

\* Places that share identities: two with the same coordinates and no
\* placeId, two with the same placeId, one whose placeId is the text the
\* coordinates of the first two give, and one whose placeId is a list.
PlaceDict(name, lat, lng, placeId) ==
    DictOf(<<[k |-> "name", v |-> Str(name)], [k |-> "lat", v |-> Num(lat)],
             [k |-> "lng", v |-> Num(lng)], [k |-> "placeId", v |-> placeId]>>)

GroupMembers ==
    {PlaceDict("B", 3, 4, Absent), PlaceDict("C", 3, 4, Absent),
     PlaceDict("D", 3, 4, Str("b1")), PlaceDict("E", 5, 6, Str("b1")),
     PlaceDict("G", 7, 8, Str("lat3lng4")), PlaceDict("F", 1, 2, List(<<Num(1)>>))}

\* The dicts with a list of at most `most` such places under "results".
Groups(most) ==
    {Dict(<<[k |-> "results", v |-> List(g)]>>) : g \in SeqsUpTo(GroupMembers, most)}

Wrappers == {"list", "dict"}

\* inner wrapped d times in a one-element list or in a one-key dict: inner
\* is at depth d.
RECURSIVE Nest(_, _, _)
Nest(d, wrapper, inner) ==
    IF d = 0 THEN inner
    ELSE Nest(d - 1, wrapper,
              IF wrapper = "list" THEN List(<<inner>>)
              ELSE Dict(<<[k |-> "data", v |-> inner]>>))

\* The payloads: a dict, with or without children, or a group of at most
\* `most` places, at a depth of at most `deepest`.
Payloads(deepest, most) ==
    {Nest(d, wrapper, inner) :
        d \in 0..deepest, wrapper \in Wrappers,
        inner \in Leaves \cup Parents \cup Groups(most)}

InitExtract ==
    /\ data \in Payloads(MaxNest, MaxGroup)
    /\ extract_out = << >>
    /\ NoOsm
    /\ NoGrid
    /\ NoDedup
    /\ country = "Spain"
    /\ NoRun

\* places = self._extract(data, base_lat, base_lng)
Extract ==
    /\ extract_out = << >>
    /\ extract_out' = <<[places |-> _extract(data),
                         deepest |-> deepest_examined(data, 0)]>>
    /\ UNCHANGED <<data, country, grid_size, grid_sectors, grid_log, all_raw, unique,
                   osm_data, osm_out>>
    /\ UNCHANGED <<proxies, current, failed, last, config, land, max_sectors,
                   sectors, semaphore, stats, task, fetched, all_places, runpc, i>>

NextExtract == Extract

SpecExtract == InitExtract /\ [][NextExtract]_vars

\* ------------------------------------------------- _parse driven directly

\* The places of the pages: two with the same coordinates and no placeId,
\* one with a placeId, one whose placeId is a list, one whose placeId is a
\* dict, and one with an apostrophe in its name.
PagePlaces ==
    {PlaceDict("B", 3, 4, Absent), PlaceDict("C", 3, 4, Absent),
     PlaceDict("D", 3, 4, Str("b1")), PlaceDict("F", 1, 2, List(<<Num(1)>>)),
     PlaceDict("H", 1, 2, Dict(<<[k |-> "a", v |-> Num(1)]>>)),
     PlaceDict("O'N", 9, 9, Absent)}

\* The payloads made of the places g: their list, the list in a list, and
\* the list under "results" in a dict.
Shaped(shape, g) ==
    CASE shape = "list" -> List(g)
      [] shape = "list in a list" -> List(<<List(g)>>)
      [] shape = "results" -> Dict(<<[k |-> "results", v |-> List(g)]>>)

AfShapes == {"none", "list", "list in a list", "results"}
StateShapes == {"none", "results"}
Quotes == {"str", "squoted"}

\* AF_initDataCallback({key: 'ds:1', hash: '2', data: ..., sideChannel: {}});
AfBlock(payload, quotes) ==
    <<Tok("word", "AF_initDataCallback", 0), Tok("(", "", 0), Tok("{", "", 0),
      Tok("word", "key", 0), Tok(":", "", 0), Tok("squoted", "ds:1", 0), Tok(",", "", 0),
      Tok("word", "hash", 0), Tok(":", "", 0), Tok("squoted", "2", 0), Tok(",", "", 0),
      Tok("word", "data", 0), Tok(":", "", 0)>>
    \o dumps(payload, quotes)
    \o <<Tok(",", "", 0), Tok("word", "sideChannel", 0), Tok(":", "", 0),
         Tok("{", "", 0), Tok("}", "", 0), Tok("}", "", 0), Tok(")", "", 0),
         Tok(";", "", 0)>>

\* window.__INITIAL_STATE__ = ...;
StateBlock(payload, quotes) ==
    <<Tok("word", "window.__INITIAL_STATE__", 0), Tok("=", "", 0)>>
    \o dumps(payload, quotes) \o <<Tok(";", "", 0)>>

\* A page with the places g in an AF_initDataCallback block, in an
\* __INITIAL_STATE__ block after it, in both or in neither.
Page(af, state, quotes, g) ==
    <<Tok("word", "html", 0)>>
    \o (IF af = "none" THEN << >> ELSE AfBlock(Shaped(af, g), quotes))
    \o (IF state = "none" THEN << >> ELSE StateBlock(Shaped(state, g), quotes))

\* The pages with at most `most` places.
Pages(most) ==
    {Page(af, state, quotes, g) :
        af \in AfShapes, state \in StateShapes, quotes \in Quotes,
        g \in SeqsUpTo(PagePlaces, most)}

InitParse ==
    /\ data \in Pages(MaxGroup)
    /\ extract_out = << >>
    /\ NoOsm
    /\ NoGrid
    /\ NoDedup
    /\ country = "Spain"
    /\ NoRun

\* places = self._parse(text, lat, lng)
Parse ==
    /\ extract_out = << >>
    /\ extract_out' = <<_parse(data)>>
    /\ UNCHANGED <<data, country, grid_size, grid_sectors, grid_log, all_raw, unique,
                   osm_data, osm_out>>
    /\ UNCHANGED <<proxies, current, failed, last, config, land, max_sectors,
                   sectors, semaphore, stats, task, fetched, all_places, runpc, i>>

NextParse == Parse

SpecParse == InitParse /\ [][NextParse]_vars

\* ---------------------------------------------- the OSM parsers driven directly

BarName == <<"B", "a", "r">>
BarPadded == <<" ", "B", "a", "r", " ">>
BarLower == <<"b", "a", "r">>
Blank == <<" ", " ">>

\* The elements payloads are built from: "Bar" with its own coordinates and
\* a full address; " Bar " with other coordinates; "Bar" without
\* coordinates; "bar"; "Cafe Sol" with a latitude only; one with a latitude
\* of 0; one without a name tag, and one whose name is blank.
Elements ==
    {Element(BarName, "Main St", "5", "28001", "Madrid", "555", "bar", "", <<401>>, <<-36>>, <<7>>),
     Element(BarPadded, "Calle 1", "", "", "", "", "", "kiosk", <<402>>, <<-35>>, <<8>>),
     Element(BarName, "", "", "28001", "", "", "", "", << >>, << >>, << >>),
     Element(BarLower, "", "", "", "Madrid", "", "cafe", "shoes", << >>, << >>, <<9>>),
     Element(CafeSol, "Main St", "", "", "Madrid", "", "", "", <<403>>, << >>, <<10>>),
     Element(CafeSol, "", "5", "", "", "", "", "", <<0>>, <<-34>>, <<11>>),
     Element(<< >>, "Main St", "", "", "", "555", "bar", "", <<401>>, <<-36>>, <<12>>),
     Element(Blank, "", "", "", "", "", "", "", <<401>>, <<-36>>, <<13>>)}

InitOsm ==
    /\ osm_data \in SeqsUpTo(Elements, MaxElements)
    /\ osm_out = << >>
    /\ NoExtract
    /\ NoGrid
    /\ NoDedup
    /\ country = "Spain"
    /\ NoRun

\* places = self._parse(data, lat, lng) in scraper_v2 and
\* self._parse_osm(data, sector) in mega_scraper, on the same payload.
ParseOsm ==
    /\ osm_out = << >>
    /\ osm_out' = <<[places |-> osm_parse(osm_data),
                     businesses |-> _parse_osm(osm_data)]>>
    /\ UNCHANGED <<osm_data, data, extract_out, country, grid_size, grid_sectors,
                   grid_log, all_raw, unique>>
    /\ UNCHANGED <<proxies, current, failed, last, config, land, max_sectors,
                   sectors, semaphore, stats, task, fetched, all_places, runpc, i>>

NextOsm == ParseOsm

SpecOsm == InitOsm /\ [][NextOsm]_vars

\* ------------------------------------------------ _is_land driven directly

\* The values the rules of Spain compare with, in tenths of a degree.
LatThresholds == {275, 280, 285, 295, 360, 362, 365, 385, 400, 420, 425, 428, 432, 433}
LngThresholds == {-185, -180, -130, -95, -93, -90, -55, -15, 3, 10, 15, 30, 40}

\* n / 20 degree: the float a literal with two decimal digits, the last one
\* 0 or 5, denotes.
Twentieths(n) == FDiv(FromInt(n), 20)

\* Centers on each threshold and 0.05 degree to either side of it.
LatProbes ==
    UNION {{Twentieths(2 * t - 1), Lit(t), Twentieths(2 * t + 1)} : t \in LatThresholds}
LngProbes ==
    UNION {{Twentieths(2 * t - 1), Lit(t), Twentieths(2 * t + 1)} : t \in LngThresholds}

\* A sector with the given center.
Probe(lat, lng) ==
    [id |-> "0_0", lat |-> lat, lng |-> lng,
     lat_min |-> FSub(lat, Lit(1)), lat_max |-> FAdd(lat, Lit(1)),
     lng_min |-> FSub(lng, Lit(1)), lng_max |-> FAdd(lng, Lit(1)),
     is_land |-> TRUE]

InitLand ==
    /\ country = "Spain"
    /\ grid_size = 1
    /\ grid_sectors \in {<<Probe(lat, lng)>> : lat \in LatProbes, lng \in LngProbes}
    /\ grid_log = << >>
    /\ NoDedup
    /\ NoExtract
    /\ NoOsm
    /\ NoRun

\* self._is_land(sector)
IsLand ==
    /\ grid_log = << >>
    /\ grid_log' = <<[op |-> "_is_land",
                      ret |-> _is_land(country, grid_sectors[1])]>>
    /\ UNCHANGED <<grid_sectors, country, grid_size, all_raw, unique, data,
                   extract_out, osm_data, osm_out>>
    /\ UNCHANGED <<proxies, current, failed, last, config, land, max_sectors,
                   sectors, semaphore, stats, task, fetched, all_places, runpc, i>>

NextLand == IsLand

SpecLand == InitLand /\ [][NextLand]_vars

\* ---------------------------------------------------------------- properties

Range(seq) == {seq[k] : k \in 1..Len(seq)}

\* The tasks that hold a permit.
Holders == {s \in DOMAIN task : task[s].acquired > task[s].released}

\* The fetches that have started and not ended.
Running == {s \in DOMAIN task :
               task[s].pc \in {"acquire", "jitter", "request", "closing", "backoff"}}

\* The tasks that exist.
Live == {s \in DOMAIN task : task[s].pc # "none"}

\* C1: a call of get_next never returns a proxy of the failed set, and it
\* returns None exactly when the list is empty or all its proxies are failed.
C1_NeverFailedNoneIffAllFailed ==
    last.op = "get_next" =>
        /\ (last.value # None => last.value \in Range(proxies) \ failed)
        /\ (last.value = None <=> \A k \in 1..Len(proxies) : proxies[k] \in failed)

\* get_next has returned the one proxy of a list of three that is not failed.
C1_Witness ==
    /\ last.op = "get_next"
    /\ last.value # None
    /\ Len(proxies) = 3
    /\ Cardinality(Range(proxies) \cap failed) = 2
    /\ current > Len(proxies)

\* C2: the failed set only grows, and every request a task issues goes through
\* a proxy that is not in the failed set at that moment: once a proxy is marked
\* failed, no request issued afterwards uses it, whichever task issues it.
C2_FailedProxyNeverUsedAgain ==
    [][ /\ failed \subseteq failed'
        /\ \A s \in DOMAIN task :
              (task[s].pc # "request" /\ task'[s].pc = "request")
                  => task'[s].proxy \notin failed' ]_vars

\* A task is in a request through a good proxy while another task of the batch
\* backs off from a proxy marked failed, and the rotator has passed over a
\* failed proxy (the cursor is ahead of the number of requests).
C2_Witness ==
    \E s, t \in DOMAIN task :
        /\ s # t
        /\ task[s].pc = "request"
        /\ task[s].proxy # None
        /\ task[s].proxy \notin failed
        /\ task[t].pc = "backoff"
        /\ task[t].proxy \in failed
        /\ current > stats.requests

\* C3: a call of get_next that returns a proxy returns the first proxy not
\* failed at or after the cursor, in cyclic list order, and leaves the cursor
\* just past it; with the list p1, p2, p3 and p2 failed the calls return p3
\* (cursor on p3 or on p2) and p1 (cursor on p1), so p3, p1, p3 after p1, p2.
C3_CyclicOrder ==
    [][ last'.op = "get_next" =>
        LET n == Len(proxies)
            p == last'.value
        IN  /\ p # None =>
                  \E k \in 0..(n - 1) :
                      /\ proxies[((current + k) % n) + 1] = p
                      /\ p \notin failed
                      /\ \A j \in 0..(k - 1) : proxies[((current + j) % n) + 1] \in failed
                      /\ current' = current + k + 1
            /\ (proxies = <<"p1", "p2", "p3">> /\ failed = {"p2"}) =>
                  /\ (current % 3 = 0 => p = "p1" /\ current' = current + 1)
                  /\ (current % 3 = 1 => p = "p3" /\ current' = current + 2)
                  /\ (current % 3 = 2 => p = "p3" /\ current' = current + 1) ]_vars

\* The list p1, p2, p3 with p2 failed after p1 and p2 were returned, and three
\* more calls made: the cursor is at 6 and the last call returned p3.
C3_Witness ==
    /\ proxies = <<"p1", "p2", "p3">>
    /\ failed = {"p2"}
    /\ current = 6
    /\ last = [op |-> "get_next", value |-> "p3"]

\* C4: a fetch issues at most 3 requests, with the attempt indices 0, 1, 2 in
\* this order, and the backoff sleep after the failed attempt k is 2^k: 1, 2, 4.
C4_ThreeTriesBackoffPowersOfTwo ==
    \A s \in DOMAIN task :
        /\ Len(task[s].tries) <= 3
        /\ \A k \in 1..Len(task[s].tries) : task[s].tries[k] = k - 1
        /\ Len(task[s].waits) <= Len(task[s].tries)
        /\ \A k \in 1..Len(task[s].waits) : task[s].waits[k] = <<1, 2, 4>>[k]
        /\ (task[s].pc = "backoff" => Len(task[s].waits) = Len(task[s].tries))
        /\ (task[s].pc \in {"request", "closing"} =>
               Len(task[s].waits) = Len(task[s].tries) - 1)

\* A fetch has ended after three failed tries.
C4_Witness ==
    \E s \in DOMAIN task :
        /\ task[s].pc = "done"
        /\ task[s].tries = <<0, 1, 2>>
        /\ task[s].waits = <<1, 2, 4>>

\* C5: at most max_concurrent tasks hold a permit, and a task in the jitter
\* sleep, in a request or in a backoff sleep holds one.
C5_PermitsBoundConcurrency ==
    /\ Cardinality(Holders) <= config.max_concurrent
    /\ \A s \in DOMAIN task :
          task[s].pc \in {"jitter", "request", "closing", "backoff"} =>
              s \in Holders

\* With one permit, a task is in a request while the other task of the batch
\* waits for the permit.
C5_Witness ==
    \E s, t \in DOMAIN task :
        /\ config.max_concurrent = 1
        /\ task[s].pc = "request"
        /\ task[t].pc = "acquire"
        /\ semaphore = 0

\* C6: a fetch releases the permit it acquired exactly once, however it ends
\* (records returned, [] returned after 3 failed tries, CancelledError), and
\* when no fetch is running all max_concurrent permits are free.
C6_PermitReleasedOnEveryExit ==
    /\ \A s \in DOMAIN task :
          /\ task[s].released <= task[s].acquired
          /\ task[s].acquired <= 1
          /\ (task[s].pc \in {"done", "cancelled"} =>
                 task[s].released = task[s].acquired)
          /\ (task[s].pc = "done" => task[s].acquired = 1)
    /\ (Running = {} => semaphore = config.max_concurrent)

\* The fetches of a batch of two have ended, one with [] after 3 failed
\* tries, the other cancelled while it held a permit, and no fetch is running.
C6_Witness ==
    /\ Running = {}
    /\ semaphore = config.max_concurrent
    /\ \E b, c \in DOMAIN task :
          /\ fetched[b].exit = "exhausted"
          /\ fetched[c].exit = "cancelled"
          /\ task[c].acquired = 1

\* C7: the tasks that exist are tasks of the current batch, at most batch_size
\* of them; every sector of an earlier batch has ended its fetch and has its
\* records in all_places; no sector of a later batch has been fetched.
C7_BatchesOneAfterAnother ==
    /\ \A s \in Live : InBatch(s)
    /\ Cardinality(Live) <= config.batch_size
    /\ \A k \in 1..Len(sectors) :
          /\ (k <= i =>
                 /\ task[sectors[k]].pc = "none"
                 /\ fetched[sectors[k]].exit \in {"success", "exhausted"}
                 /\ Range(fetched[sectors[k]].result) \subseteq Range(all_places))
          /\ (k > i + config.batch_size => fetched[sectors[k]].calls = 0)

\* A task of the second batch is in a request, and records of the first batch
\* are in all_places.
C7_Witness ==
    /\ runpc = "gather"
    /\ i > 0
    /\ all_places # << >>
    /\ \E s \in DOMAIN task : task[s].pc = "request"

\* The sequence to scrape as the claim words it: the land sectors, truncated
\* to the first max_sectors when max_sectors is given.
SectorsToScrape ==
    IF max_sectors # << >>
    THEN PySlice(LandSectors(land), 0, max_sectors[1])
    ELSE LandSectors(land)

\* C8: no sector is fetched twice, and when the run is done every sector of
\* the sequence to scrape has been fetched once.
C8_EverySectorFetchedOnce ==
    /\ \A s \in DOMAIN fetched : fetched[s].calls <= 1
    /\ runpc = "done" =>
          /\ \A k \in 1..Len(sectors) : fetched[sectors[k]].calls = 1
          /\ \A k \in 1..Len(SectorsToScrape) : fetched[SectorsToScrape[k]].calls = 1

\* A run of 3 sectors in batches of 2 (the last batch has one sector) is done.
C8_Witness ==
    /\ runpc = "done"
    /\ Len(sectors) = 3
    /\ config.batch_size = 2
    /\ \A k \in 1..Len(sectors) : fetched[sectors[k]].calls = 1

\* C9: a request that ends with status 200 (the step that counts a success)
\* ends the fetch: _request is left with the records, and search returns
\* them and makes no further try.
C9_Status200EndsTheFetch ==
    [][ \A s \in DOMAIN task :
          /\ (/\ task[s].pc = "request"
              /\ task'[s].pc # "request"
              /\ stats'.success = stats.success + 1)
                 => (task'[s].pc = "closing" /\ task'[s].ret = "places")
          /\ (/\ task[s].pc = "closing"
              /\ task[s].ret = "places"
              /\ task'[s].pc # "closing")
                 => (/\ task'[s].pc = "done"
                     /\ task'[s].result = task[s].result
                     /\ fetched'[s].exit = "success") ]_vars

\* C10: a fetch whose 3 tries all failed returns []: the sector has no record
\* in all_places, and no sector is dispatched a second time.
C10_ExhaustedSectorIsDropped ==
    \A s \in DOMAIN task :
        /\ fetched[s].calls <= 1
        /\ (task[s].pc = "done" /\ Len(task[s].waits) = 3 =>
               task[s].result = << >> /\ fetched[s].exit = "exhausted")
        /\ (fetched[s].exit = "exhausted" =>
               /\ fetched[s].result = << >>
               /\ fetched[s].calls = 1
               /\ task[s].pc \in {"done", "none"}
               /\ \A k \in 1..Len(all_places) : all_places[k][1] # s)

\* The run is done; a sector was given up and a later sector has records.
C10_Witness ==
    /\ runpc = "done"
    /\ \E s, t \in DOMAIN task :
          /\ s < t
          /\ fetched[s].exit = "exhausted"
          /\ fetched[t].exit = "success"
          /\ \E k \in 1..Len(all_places) : all_places[k][1] = t

\* C11: a failed fetch (a request error, a payload _parse raises on, 3 failed
\* tries) is no exception of gather or of run: the run is never ended by one,
\* each task of a gathered batch is running or done and, unless all are done,
\* one of them can take its next step (it holds a permit or a permit is
\* free), and when the run is done every sector was fetched, ending with
\* records or with [], and all_places holds the records of all of them in
\* sector order.
C11_FailedFetchNeverEndsTheRun ==
    /\ runpc \in {"grid", "loop", "gather", "done", "error"}
    /\ runpc = "error" => \A s \in DOMAIN fetched : fetched[s].calls = 0
    /\ runpc = "gather" =>
          /\ \A k \in 1..Len(Batch) :
                task[Batch[k]].pc \in
                    {"acquire", "jitter", "request", "closing", "backoff", "done"}
          /\ \/ \A k \in 1..Len(Batch) : task[Batch[k]].pc = "done"
             \/ \E k \in 1..Len(Batch) :
                   task[Batch[k]].pc \in {"jitter", "request", "closing", "backoff"}
             \/ semaphore > 0
    /\ runpc = "done" =>
          /\ \A k \in 1..Len(sectors) :
                /\ fetched[sectors[k]].calls = 1
                /\ fetched[sectors[k]].exit \in {"success", "exhausted"}
          /\ all_places =
                Flatten([k \in 1..Len(sectors) |-> fetched[sectors[k]].result])

\* The first sector of a batch of 2 was given up; the second sector of that
\* batch and the sector of the next batch have their records in all_places.
C11_Witness ==
    /\ runpc = "done"
    /\ config.batch_size = 2
    /\ Len(sectors) = 3
    /\ fetched[sectors[1]].exit = "exhausted"
    /\ all_places = <<<<sectors[2], 1>>, <<sectors[3], 1>>>>

\* C12: a 200 response no record is taken from (the payload is malformed or
\* of an unexpected shape) is a successful try that returns []: the fetch
\* ends there and no retry is counted.
C12_BadPayloadIsEmptySuccess ==
    [][ \A s \in DOMAIN task :
          /\ (/\ task[s].pc = "request"
              /\ task'[s].pc # "request"
              /\ stats'.success = stats.success + 1
              /\ stats'.places = stats.places)
                 => (/\ task'[s].pc = "closing"
                     /\ task'[s].ret = "places"
                     /\ task'[s].result = << >>)
          /\ (/\ task[s].pc = "closing"
              /\ task[s].ret = "places"
              /\ task[s].result = << >>
              /\ task'[s].pc # "closing")
                 => (/\ task'[s].pc = "done"
                     /\ task'[s].result = << >>
                     /\ stats'.retry = stats.retry) ]_vars

\* C20: a run for a country that is no key of COUNTRIES ends with the
\* ValueError of the GeoGrid constructor: it has no sectors, no task was
\* created, no permit was acquired and no request was issued; and a run ends
\* that way only for such a country.
C20_UnknownCountryStopsBeforeAnyFetch ==
    /\ country \notin DOMAIN COUNTRIES =>
          /\ runpc \in {"grid", "error"}
          /\ sectors = << >>
          /\ semaphore = config.max_concurrent
          /\ stats.requests = 0
          /\ \A s \in DOMAIN task : task[s] = NoTask /\ fetched[s] = NotFetched
    /\ runpc = "error" => country \notin DOMAIN COUNTRIES

\* The run for "Atlantis", for which land sectors were there to fetch had
\* the country been accepted, has ended with the error.
C20_Witness ==
    /\ runpc = "error"
    /\ country = "Atlantis"
    /\ land > 0

\* The dedup keys of the records of a list.
Keys(businesses) == {dedup_key(businesses[k]) : k \in 1..Len(businesses)}

\* C13: the list a call of deduplicate_businesses returns has no two records
\* with the same dedup key, and its keys are the keys of the list given.
C13_OneRecordPerKey ==
    \A p \in 1..Len(unique) :
        /\ \A j, k \in 1..Len(unique[p]) :
              j # k => dedup_key(unique[p][j]) # dedup_key(unique[p][k])
        /\ Keys(unique[p]) = Keys(DedupInput(p))

\* Three records were given, two of them different records with one key: two
\* records were returned.
C13_Witness ==
    /\ Len(unique) >= 1
    /\ Len(all_raw) = 3
    /\ all_raw[1] # all_raw[3]
    /\ dedup_key(all_raw[1]) = dedup_key(all_raw[3])
    /\ dedup_key(all_raw[1]) # dedup_key(all_raw[2])
    /\ Len(unique[1]) = 2

\* C14: deduplicate_businesses given the list it returned returns that list
\* again, the same records in the same order.
C14_DeduplicateIdempotent ==
    \A p \in 2..Len(unique) : unique[p] = unique[p - 1]

\* The second call has returned; the first call had merged records (its
\* result is shorter than all_raw) and returned more than one.
C14_Witness ==
    /\ Len(unique) >= 2
    /\ Len(unique[1]) >= 2
    /\ Len(unique[1]) < Len(all_raw)

\* B has a phone where A has none.
PhoneAdvantage(B, A) == B.phone # "" /\ A.phone = ""

\* C15: of two records with one dedup key, given in either order, the one
\* with the strictly longer address is the record returned, when the other
\* one has no phone advantage over it.
C15_LongerAddressWins ==
    (Len(unique) >= 1 /\ Len(all_raw) = 2) =>
        \A a, b \in 1..2 :
            (/\ a # b
             /\ dedup_key(all_raw[a]) = dedup_key(all_raw[b])
             /\ Len(all_raw[a].address) > Len(all_raw[b].address)
             /\ ~PhoneAdvantage(all_raw[b], all_raw[a]))
                => unique[1] = <<all_raw[a]>>

\* B arrived first and A, whose address is longer, replaced it: both have a
\* phone, so neither has a phone advantage.
C15_Witness ==
    /\ Len(unique) >= 1
    /\ Len(all_raw) = 2
    /\ dedup_key(all_raw[1]) = dedup_key(all_raw[2])
    /\ Len(all_raw[2].address) > Len(all_raw[1].address)
    /\ all_raw[1].phone # "" /\ all_raw[2].phone # ""
    /\ unique[1] = <<all_raw[2]>>

\* The two records of the scenario: "Cafe Sol" at (40.0001, -3.0001) with
\* address "Main St", and "Cafe Sol" at (40.0002, -3.0002) with no address.
IsMainSt(biz) ==
    /\ biz.name = CafeSol /\ biz.address = "Main St"
    /\ biz.lat = 400001 /\ biz.lng = -30001

IsNoAddress(biz) ==
    /\ biz.name = CafeSol /\ biz.address = ""
    /\ biz.lat = 400002 /\ biz.lng = -30002

\* C16 as stated: the two records have the same dedup key, and given in
\* either order the "Main St" record alone is returned.
C16_MainStRetainedEitherOrder ==
    (Len(unique) >= 1 /\ Len(all_raw) = 2) =>
        \A a, b \in 1..2 :
            (a # b /\ IsMainSt(all_raw[a]) /\ IsNoAddress(all_raw[b]))
                => /\ dedup_key(all_raw[a]) = dedup_key(all_raw[b])
                   /\ unique[1] = <<all_raw[a]>>

\* C16, amended: the two records have the same dedup key, and given in
\* either order the "Main St" record alone is returned, when the record
\* without address has no phone advantage over it.
C16_MainStRetainedWithoutPhoneAdvantage ==
    (Len(unique) >= 1 /\ Len(all_raw) = 2) =>
        \A a, b \in 1..2 :
            (a # b /\ IsMainSt(all_raw[a]) /\ IsNoAddress(all_raw[b]))
                => /\ dedup_key(all_raw[a]) = dedup_key(all_raw[b])
                   /\ ~PhoneAdvantage(all_raw[b], all_raw[a])
                         => unique[1] = <<all_raw[a]>>

\* The record without address arrived first, neither record has a phone, and
\* the "Main St" record alone was returned.
C16_Witness ==
    /\ Len(unique) >= 1
    /\ Len(all_raw) = 2
    /\ IsNoAddress(all_raw[1]) /\ IsMainSt(all_raw[2])
    /\ all_raw[1].phone = "" /\ all_raw[2].phone = ""
    /\ unique[1] = <<all_raw[2]>>

\* The lists the calls of generate in the log returned.
Generated == {grid_log[k].ret : k \in {m \in 1..Len(grid_log) : grid_log[m].op = "generate"}}

\* C17: generate returns grid_size * grid_size sectors with pairwise distinct
\* ids, and the center of each lies strictly inside the bounds of the country.
C17_GenerateSquareDistinctInside ==
    \A ret \in Generated :
        LET bounds == GridCountries[country]
        IN  /\ Len(ret) = grid_size * grid_size
            /\ \A j, k \in 1..Len(ret) : j # k => ret[j].id # ret[k].id
            /\ \A k \in 1..Len(ret) :
                  /\ FLt(bounds.min_lat, ret[k].lat)
                  /\ FLt(ret[k].lat, bounds.max_lat)
                  /\ FLt(bounds.min_lng, ret[k].lng)
                  /\ FLt(ret[k].lng, bounds.max_lng)

\* generate has returned the 9 or more sectors of a grid over Spain.
C17_Witness ==
    /\ country = "Spain"
    /\ grid_size >= 3
    /\ Generated # {}
    /\ \A ret \in Generated : Len(ret) = grid_size * grid_size

\* The sector of row r and column q (from 0) of the list ret of a grid of
\* size n, and the steps of the grid.
At(ret, n, r, q) == ret[r * n + q + 1]

LatStep == FDiv(FSub(GridCountries[country].max_lat, GridCountries[country].min_lat),
                grid_size)

LngStep == FDiv(FSub(GridCountries[country].max_lng, GridCountries[country].min_lng),
                grid_size)

\* generate returns the sectors row by row: the sector at i * n + j (from 0)
\* has the id "i_j" and spans [min + i * step, min + (i + 1) * step] in
\* latitude and [min + j * step, min + (j + 1) * step] in longitude; the
\* cells start at the minimum and each begins where the one before it ends.
RowMajorCells(ret) ==
    LET n == grid_size
        bounds == GridCountries[country]
        lat_edge == [r \in 0..n |-> FAdd(bounds.min_lat, FMul(r, LatStep))]
        lng_edge == [q \in 0..n |-> FAdd(bounds.min_lng, FMul(q, LngStep))]
    IN  /\ Len(ret) = n * n
        /\ \A r, q \in 0..(n - 1) :
              LET sector == At(ret, n, r, q)
              IN  /\ sector.id = ToString(r) \o "_" \o ToString(q)
                  /\ sector.lat_min = lat_edge[r]
                  /\ sector.lat_max = lat_edge[r + 1]
                  /\ sector.lng_min = lng_edge[q]
                  /\ sector.lng_max = lng_edge[q + 1]
                  /\ r = 0 => sector.lat_min = bounds.min_lat
                  /\ q = 0 => sector.lng_min = bounds.min_lng
                  /\ r > 0 => sector.lat_min = At(ret, n, r - 1, q).lat_max
                  /\ q > 0 => sector.lng_min = At(ret, n, r, q - 1).lng_max

\* The 2 x 2 grid over lat 0-2, lng 0-2 has the centers (0.5, 0.5),
\* (0.5, 1.5), (1.5, 0.5), (1.5, 1.5) in this order.
ScenarioCenters(ret) ==
    (country = "Box02" /\ grid_size = 2) =>
        [k \in 1..Len(ret) |-> <<ret[k].lat, ret[k].lng>>]
           = << <<Lit(5), Lit(5)>>, <<Lit(5), Lit(15)>>,
                <<Lit(15), Lit(5)>>, <<Lit(15), Lit(15)>> >>

\* C18: generate returns the sectors row by row, cell (i, j) spanning
\* [min + i * step, min + (i + 1) * step] on each axis; the cells start at the
\* minimum, end at the maximum and each begins where the one before it ends;
\* the center of a sector is the midpoint of its bounds (2 * lat = lat_min +
\* lat_max, as the program computes the two sides); and the 2 x 2 grid over
\* lat 0-2, lng 0-2 has the centers (0.5, 0.5), (0.5, 1.5), (1.5, 0.5),
\* (1.5, 1.5) in this order.
C18_RowMajorMidpointsTiling ==
    \A ret \in Generated :
        LET n == grid_size
            bounds == GridCountries[country]
        IN  /\ RowMajorCells(ret)
            /\ \A r, q \in 0..(n - 1) :
                  LET sector == At(ret, n, r, q)
                  IN  /\ FMul(2, sector.lat) = FAdd(sector.lat_min, sector.lat_max)
                      /\ FMul(2, sector.lng) = FAdd(sector.lng_min, sector.lng_max)
                      /\ r = n - 1 => sector.lat_max = bounds.max_lat
                      /\ q = n - 1 => sector.lng_max = bounds.max_lng
            /\ ScenarioCenters(ret)

\* 2^-40 degree, less than 1e-12 degree.
Tolerance == Nearest(1, Big(1), -40)

\* x and y differ by less than Tolerance.
Close(x, y) ==
    /\ FLt(FSub(x, y), Tolerance)
    /\ FLt(FSub(y, x), Tolerance)

\* C18, amended: generate returns the sectors row by row, cell (i, j)
\* spanning [min + i * step, min + (i + 1) * step] on each axis as the floats
\* give them; the cells start at the minimum and each begins where the one
\* before it ends; the last cell of each axis ends within 1e-12 degree of the
\* maximum; the center of a sector lies strictly between its bounds, within
\* 1e-12 degree of their midpoint; and the centers of the 2 x 2 grid over
\* lat 0-2, lng 0-2 are exactly (0.5, 0.5), (0.5, 1.5), (1.5, 0.5), (1.5, 1.5).
C18_RowMajorTilingUpToRounding ==
    \A ret \in Generated :
        LET n == grid_size
            bounds == GridCountries[country]
        IN  /\ RowMajorCells(ret)
            /\ \A r, q \in 0..(n - 1) :
                  LET sector == At(ret, n, r, q)
                  IN  /\ FLt(sector.lat_min, sector.lat) /\ FLt(sector.lat, sector.lat_max)
                      /\ FLt(sector.lng_min, sector.lng) /\ FLt(sector.lng, sector.lng_max)
                      /\ Close(sector.lat, FDiv(FAdd(sector.lat_min, sector.lat_max), 2))
                      /\ Close(sector.lng, FDiv(FAdd(sector.lng_min, sector.lng_max), 2))
                      /\ r = n - 1 => Close(sector.lat_max, bounds.max_lat)
                      /\ q = n - 1 => Close(sector.lng_max, bounds.max_lng)
            /\ ScenarioCenters(ret)

\* generate has returned the sectors of a grid over France whose last
\* column ends past the maximum longitude, by less than the tolerance, and
\* in which the center of a sector is not the midpoint the floats give.
C18_Witness ==
    /\ country = "France"
    /\ \E ret \in Generated :
          /\ Len(ret) = grid_size * grid_size
          /\ FLt(GridCountries[country].max_lng, ret[Len(ret)].lng_max)
          /\ \E k \in 1..Len(ret) :
                FMul(2, ret[k].lat) # FAdd(ret[k].lat_min, ret[k].lat_max)

\* C19: after generate, every further call of filter_water_sectors returns
\* the sequence the first call returned.
C19_FilterIdempotent ==
    (Len(grid_log) >= 1 /\ grid_log[1].op = "generate") =>
        \A k \in 3..Len(grid_log) : grid_log[k].ret = grid_log[2].ret

\* A grid over Spain was generated and filtered twice; the first call
\* removed some sectors and kept some.
C19_Witness ==
    /\ country = "Spain"
    /\ Len(grid_log) = 3
    /\ grid_log[1].op = "generate"
    /\ Len(grid_log[2].ret) > 0
    /\ Len(grid_log[2].ret) < Len(grid_log[1].ret)
    /\ grid_sectors = grid_log[3].ret

\* The value a payload carries under its wrappers, and how deep.
RECURSIVE Carried(_)
Carried(v) ==
    IF \/ v.t = "list" /\ Len(v.items) = 1
       \/ v.t = "dict" /\ Len(v.items) = 1 /\ v.items[1].k = "data"
    THEN Carried(v.items[1].v)
    ELSE v

RECURSIVE NestDepth(_)
NestDepth(v) ==
    IF \/ v.t = "list" /\ Len(v.items) = 1
       \/ v.t = "dict" /\ Len(v.items) = 1 /\ v.items[1].k = "data"
    THEN 1 + NestDepth(v.items[1].v)
    ELSE 0

\* The call of _extract has returned.
Extracted == extract_out # << >>

\* C21: _extract returns on every payload, nested 20 levels deep included;
\* no node deeper than depth 15 (root = depth 0) is examined, and a payload
\* whose only dicts with names and coordinates lie below depth 15 gives no
\* record.
C21_ExtractStopsAtDepthLimit ==
    Extracted =>
        /\ extract_out[1].deepest <= DepthLimit
        /\ NestDepth(data) > DepthLimit => extract_out[1].places = << >>

\* A place-shaped dict 20 levels deep has been given to _extract, which
\* returned no record and examined nodes down to depth 15.
C21_Witness ==
    /\ Extracted
    /\ NestDepth(data) = 20
    /\ place_of(Carried(data)) # << >>
    /\ extract_out[1].places = << >>
    /\ extract_out[1].deepest = DepthLimit

NonEmptyStr(v) == v.t = "str" /\ v.s # ""

Numeric(v) == v.t = "num"

\* A dict with a non-empty string under "title" or under "name".
Named(obj) ==
    /\ obj.t = "dict"
    /\ NonEmptyStr(Get(obj, "title", Null)) \/ NonEmptyStr(Get(obj, "name", Null))

\* A named dict with a number under "lat" or "latitude" and a number under
\* "lng" or "longitude".
PlaceShaped(obj) ==
    /\ Named(obj)
    /\ Numeric(Get(obj, "lat", Null)) \/ Numeric(Get(obj, "latitude", Null))
    /\ Numeric(Get(obj, "lng", Null)) \/ Numeric(Get(obj, "longitude", Null))

\* C28: a dict within the depth bound that has a non-empty string under
\* "title" or "name", a number under "lat" or "latitude" and a number under
\* "lng" or "longitude" is extracted as a record, whatever is under the other
\* key of each pair and whatever the numbers are, 0 included.
C28_PlaceShapedDictIsExtracted ==
    Extracted /\ NestDepth(data) <= DepthLimit /\ PlaceShaped(Carried(data))
        => extract_out[1].places # << >>

\* C29: a named dict within the depth bound that has none of the four
\* coordinate keys yields a record at the sector center.
C29_NamedDictWithoutCoordinatesAtCenter ==
    /\ Extracted
    /\ NestDepth(data) <= DepthLimit
    /\ Named(Carried(data))
    /\ \A key \in {"lat", "latitude", "lng", "longitude"} :
          Get(Carried(data), key, Absent) = Absent
    => \E k \in 1..Len(extract_out[1].places) :
          /\ extract_out[1].places[k].lat = base_lat
          /\ extract_out[1].places[k].lng = base_lng

\* The names of the records returned, in order.
ExtractedNames ==
    [k \in 1..Len(extract_out[1].places) |-> extract_out[1].places[k].name]

\* How many copies of its child a parent of the given shape holds, and how
\* far below the parent.
Copies(shape) == IF shape = "children in a list" THEN 2 ELSE 1

Below(shape) == IF shape = "children in a list" THEN 2 ELSE 1

\* C30: the traversal goes on below a match: for a place-shaped dict "A"
\* within the depth bound that holds place-shaped dicts "B", the record of
\* "A" comes first and one record follows for every "B" within the depth
\* bound.
C30_NestedPlacesInPreOrder ==
    \A shape \in ParentShapes \ {"no place"}, child \in Children :
        /\ Extracted
        /\ NestDepth(data) <= DepthLimit
        /\ Carried(data) = Parent(shape, child)
        => ExtractedNames =
              <<"A">> \o [k \in 1..(IF /\ child.t = "dict"
                                       /\ PlaceShaped(child)
                                       /\ NestDepth(data) + Below(shape) <= DepthLimit
                                    THEN Copies(shape) ELSE 0) |-> "B"]

\* A place-shaped dict whose first value is a place-shaped dict has been
\* extracted: the parent's record, then the child's.
C30_Witness ==
    /\ Extracted
    /\ \E child \in Children :
          /\ child.t = "dict" /\ PlaceShaped(child)
          /\ Carried(data) = Parent("child first", child)
    /\ NestDepth(data) < DepthLimit
    /\ ExtractedNames = <<"A", "B">>

\* What deduplicate_businesses holds after the first k records of all_raw.
StoredAfter(k) ==
    IF k = Len(all_raw) /\ unique # << >>
    THEN unique[1]
    ELSE deduplicate_businesses(SubSeq(all_raw, 1, k))

\* C22: for an incoming record whose key is stored, the stored record is
\* replaced if and only if the incoming address is strictly longer or the
\* incoming phone is non-empty while the stored one is empty; otherwise the
\* stored record stays; a record with an unseen key is inserted as it is.
C22_StepRule ==
    unique # << >> =>
        \A k \in 1..Len(all_raw) :
            LET stored == StoredAfter(k - 1)
                biz == all_raw[k]
                Same == {j \in 1..Len(stored) : dedup_key(stored[j]) = dedup_key(biz)}
            IN  IF Same = {}
                THEN StoredAfter(k) = Append(stored, biz)
                ELSE \A j \in Same :
                        IF \/ Len(biz.address) > Len(stored[j].address)
                           \/ biz.phone # "" /\ stored[j].phone = ""
                        THEN StoredAfter(k) = [stored EXCEPT ![j] = biz]
                        ELSE StoredAfter(k) = stored

\* Three records of one key have been merged: the second replaced the first
\* for its phone alone, the third, with another address of the same length
\* and no phone, left the second in place.
C22_Witness ==
    /\ Len(all_raw) = 3
    /\ unique # << >>
    /\ dedup_key(all_raw[1]) = dedup_key(all_raw[2])
    /\ dedup_key(all_raw[2]) = dedup_key(all_raw[3])
    /\ Len(all_raw[2].address) <= Len(all_raw[1].address)
    /\ all_raw[1].phone = "" /\ all_raw[2].phone # ""
    /\ Len(all_raw[3].address) = Len(all_raw[2].address)
    /\ all_raw[3].address # all_raw[2].address
    /\ unique[1] = <<all_raw[2]>>

\* C23: every record deduplicate_businesses returns is, field for field,
\* one of the records it was given, with the same dedup key.
C23_OutputRecordsAreInputRecords ==
    \A p \in 1..Len(unique) :
        \A k \in 1..Len(unique[p]) :
            \E j \in 1..Len(DedupInput(p)) :
                /\ DedupInput(p)[j] = unique[p][k]
                /\ dedup_key(DedupInput(p)[j]) = dedup_key(unique[p][k])

\* Two records of one key, the first with the longer address and no phone,
\* the second with a phone and no address, have been merged into one record.
C23_Witness ==
    /\ Len(all_raw) = 2
    /\ unique # << >>
    /\ dedup_key(all_raw[1]) = dedup_key(all_raw[2])
    /\ all_raw[1].address # "" /\ all_raw[1].phone = ""
    /\ all_raw[2].address = "" /\ all_raw[2].phone # ""
    /\ Len(unique[1]) = 1

\* Letters and digits.
Alphanumeric == WordChars \ {"_"}

\* A name lower-cased, with every non-alphanumeric character removed.
Normalised(name) ==
    SelectSeq([k \in 1..Len(name) |-> Lower(name[k])], LAMBDA c : c \in Alphanumeric)

\* C24: two records whose names differ only in letter case and in
\* non-alphanumeric characters (spaces, punctuation, underscores) and whose
\* rounded coordinates are equal have the same dedup key.
C24_KeyIgnoresCaseAndNonAlphanumerics ==
    unique # << >> =>
        \A j, k \in 1..Len(all_raw) :
            /\ Normalised(all_raw[j].name) = Normalised(all_raw[k].name)
            /\ Round3(all_raw[j].lat) = Round3(all_raw[k].lat)
            /\ Round3(all_raw[j].lng) = Round3(all_raw[k].lng)
            => dedup_key(all_raw[j]) = dedup_key(all_raw[k])

\* A step that is a call of filter_water_sectors.
FilterStep ==
    /\ Len(grid_log') = Len(grid_log) + 1
    /\ grid_log'[Len(grid_log')].op = "filter_water_sectors"

\* C25: filter_water_sectors leaves the grid's stored sectors, every field
\* of them, and with them the statistics, as they were before the call.
C25_FilterLeavesGridUnchanged ==
    [][FilterStep =>
          /\ grid_sectors' = grid_sectors
          /\ \A k \in 1..Len(grid_log) : grid_log'[k] = grid_log[k]
          /\ get_stats(country, grid_size, grid_sectors')
                = get_stats(country, grid_size, grid_sectors)]_vars

\* C25, amended: filter_water_sectors returns the land sectors of the stored
\* sequence, in its order, and stores them as the grid's sequence; it writes
\* is_land on the sectors it examined, so that the list generate returned
\* reads False on the sectors dropped; the statistics read after the call
\* count the stored sectors as land and the rest of the grid_size * grid_size
\* sectors as water, while those read after generate alone count every
\* sector as land.
C25_FilterStoresLandSubset ==
    /\ (grid_log # << >> /\ grid_log[1].op = "generate") =>
          \A j \in 1..Len(grid_log[1].ret) :
              grid_log[1].ret[j].is_land =
                  (Len(grid_log) = 1 \/ _is_land(country, grid_log[1].ret[j]))
    /\ \A k \in FilterCalls :
          /\ k > 1 =>
                grid_log[k].ret =
                    SelectSeq(grid_log[k - 1].ret,
                              LAMBDA sector : _is_land(country, sector))
          /\ k = Len(grid_log) =>
                /\ grid_sectors = grid_log[k].ret
                /\ get_stats(country, grid_size, grid_sectors).land_sectors
                      = Len(grid_log[k].ret)
                /\ get_stats(country, grid_size, grid_sectors).water_sectors
                      = grid_size * grid_size - Len(grid_log[k].ret)
    /\ Len(grid_log) = 1 /\ grid_log[1].op = "generate" =>
          /\ get_stats(country, grid_size, grid_sectors).land_sectors
                = grid_size * grid_size
          /\ get_stats(country, grid_size, grid_sectors).water_sectors = 0

\* A grid with land and water sectors has been generated and filtered: fewer
\* sectors are stored than were generated.
C25_Witness ==
    /\ Len(grid_log) = 2
    /\ grid_log[1].op = "generate"
    /\ grid_log[2].op = "filter_water_sectors"
    /\ Len(grid_sectors) > 0
    /\ Len(grid_sectors) < Len(grid_log[1].ret)
    /\ \E j \in 1..Len(grid_log[1].ret) : ~grid_log[1].ret[j].is_land
    /\ get_stats(country, grid_size, grid_sectors).water_sectors > 0

\* The proxies the next Len(ps) calls of get_next return.
RECURSIVE NextCycle(_, _, _, _)
NextCycle(ps, cur, fl, calls) ==
    IF calls = 0
    THEN {}
    ELSE LET r == get_next(ps, cur, fl)
         IN  {r.proxy} \cup NextCycle(ps, r.current, fl, calls - 1)

\* Sector s's request ends in this step without a result: _request is left
\* with None.
RequestFails(s) ==
    task[s].pc = "request" /\ task'[s].pc = "closing" /\ task'[s].ret = "None"

\* C26: a request that fails otherwise than with a 429 leaves the failed
\* set unchanged, and its proxy, if no 429 of another request has marked it
\* in the meantime, is among those get_next returns in the next rotation
\* cycle; the failed set changes only by a 429 on a request made
\* with a proxy, which adds that proxy; a 429 on a request made without a
\* proxy adds nothing.
C26_Only429MarksAProxyFailed ==
    [][/\ failed' # failed =>
            \E s \in DOMAIN task :
                /\ RequestFails(s)
                /\ stats'.blocked = stats.blocked + 1
                /\ task[s].proxy # None
                /\ failed' = failed \cup {task[s].proxy}
       /\ \A s \in DOMAIN task :
            /\ RequestFails(s) /\ stats'.blocked = stats.blocked =>
                  /\ failed' = failed
                  /\ task[s].proxy # None /\ task[s].proxy \notin failed =>
                        task[s].proxy \in
                            NextCycle(proxies', current', failed', Len(proxies'))
            /\ RequestFails(s) /\ task[s].proxy = None => failed' = failed]_vars

\* A request made with the only proxy failed otherwise than with a 429, and
\* the next try of the same fetch has been given that proxy again.
C26_Witness ==
    /\ Len(proxies) = 1
    /\ failed = {}
    /\ stats.blocked = 0
    /\ stats.retry = 1
    /\ \E s \in DOMAIN task :
          /\ task[s].pc = "request"
          /\ task[s].attempt = 1
          /\ task[s].proxy = proxies[1]

\* No proxy is left to use: the list is empty or all of it is marked failed.
NoUsableProxy == \A p \in Range(proxies) : p \in failed

\* C27: with no usable proxy, each try of a fetch still issues its request,
\* without a proxy, and a fetch without a result still ends only after its
\* third try.
C27_NoProxyStillRequests ==
    [][\A s \in DOMAIN task :
          /\ /\ NoUsableProxy
             /\ task[s].pc = "jitter"
                   \/ (task[s].pc = "backoff" /\ task[s].attempt + 1 < MaxAttempts)
             /\ task'[s] # task[s]
             => /\ task'[s].pc = "request"
                /\ task'[s].proxy = None
                /\ stats'.requests = stats.requests + 1
          /\ /\ NoUsableProxy
             /\ fetched[s].exit # "exhausted"
             /\ fetched'[s].exit = "exhausted"
             => Len(task[s].tries) = MaxAttempts]_vars

\* Every proxy of the run has been marked failed and a fetch is in its third
\* request, made without a proxy.
C27_Witness ==
    /\ proxies # << >>
    /\ NoUsableProxy
    /\ \E s \in DOMAIN task :
          /\ task[s].pc = "request"
          /\ task[s].attempt = MaxAttempts - 1
          /\ task[s].proxy = None

\* What _parse returned, and what _extract had given it for the matches of
\* the two patterns, one after the other.
Parsed == extract_out[1].unique

Extracted_places == extract_out[1].places

\* The position of the first record with the given place_id.
FirstWith(places, id) ==
    CHOOSE k \in 1..Len(places) :
        /\ places[k].place_id = id
        /\ \A j \in 1..(k - 1) : places[j].place_id # id

\* C31: the records _parse returns for a payload have pairwise distinct
\* identities (place_id, or the text derived from the coordinates); every
\* identity extracted is among them; the record kept for an identity is the
\* first one extracted with it; and the kept records are in extraction order.
C31_ParseKeepsFirstOfEachIdentity ==
    Extracted /\ ~extract_out[1].raised =>
        /\ \A a, b \in 1..Len(Parsed) :
              a # b => Parsed[a].place_id # Parsed[b].place_id
        /\ \A k \in 1..Len(Extracted_places) :
              \E a \in 1..Len(Parsed) :
                  Parsed[a].place_id = Extracted_places[k].place_id
        /\ \A a \in 1..Len(Parsed) :
              /\ \E k \in 1..Len(Extracted_places) :
                    Extracted_places[k].place_id = Parsed[a].place_id
              /\ Parsed[a] =
                    Extracted_places[FirstWith(Extracted_places, Parsed[a].place_id)]
        /\ \A a, b \in 1..Len(Parsed) :
              a < b => FirstWith(Extracted_places, Parsed[a].place_id)
                          < FirstWith(Extracted_places, Parsed[b].place_id)

\* Three places were extracted, the third with the identity of the first
\* under another name and the second with one of its own: _parse returned
\* the first and the second.
C31_Witness ==
    /\ Extracted
    /\ ~extract_out[1].raised
    /\ Len(Extracted_places) = 3
    /\ Extracted_places[3].place_id = Extracted_places[1].place_id
    /\ Extracted_places[3].name # Extracted_places[1].name
    /\ Extracted_places[2].place_id # Extracted_places[1].place_id
    /\ Parsed = <<Extracted_places[1], Extracted_places[2]>>

\* The position of the first element whose trimmed name is the given one.
FirstNamed(elements, name) ==
    CHOOSE k \in 1..Len(elements) :
        /\ Strip(elements[k].name) = name
        /\ \A j \in 1..(k - 1) : Strip(elements[j].name) # name

\* One record per distinct non-empty trimmed name, each built from the first
\* element with that name, at the sector center where that element has no
\* coordinate of its own.
OnePerName(elements, out, ids, prefix) ==
    /\ \A a, b \in 1..Len(out) : a # b => out[a].name # out[b].name
    /\ {out[a].name : a \in 1..Len(out)}
          = {Strip(elements[k].name) : k \in 1..Len(elements)} \ {<< >>}
    /\ \A a \in 1..Len(out) :
          LET e == elements[FirstNamed(elements, out[a].name)]
          IN  /\ ids[a] = prefix \o (IF e.id = << >> THEN "" ELSE ToString(e.id[1]))
              /\ out[a].phone = e.phone
              /\ e.lat = << >> => out[a].lat = base_lat
              /\ e.lon = << >> => out[a].lng = base_lng
              /\ e.lat # << >> /\ e.lat[1] # 0 => out[a].lat = e.lat[1]
              /\ e.lon # << >> /\ e.lon[1] # 0 => out[a].lng = e.lon[1]

\* C32: the OSM parsers return one record per distinct non-empty trimmed
\* name, built from the first element in payload order with that name;
\* elements with an empty or blank name and later elements repeating a name
\* give no record; an element without lat/lon of its own is placed at the
\* sector center.
C32_OsmOneRecordPerTrimmedName ==
    osm_out # << >> =>
        /\ OnePerName(osm_data, osm_out[1].places,
                      [a \in 1..Len(osm_out[1].places) |->
                          osm_out[1].places[a].place_id], "osm_")
        /\ OnePerName(osm_data, osm_out[1].businesses,
                      [a \in 1..Len(osm_out[1].businesses) |->
                          osm_out[1].businesses[a].source_id], "")

\* A payload of three elements has been parsed: "Bar" without coordinates,
\* " Bar " with coordinates, and a blank name. Each parser returned one
\* record, from the first element, at the sector center.
C32_Witness ==
    /\ osm_out # << >>
    /\ Len(osm_data) = 3
    /\ osm_data[1].name = BarName /\ osm_data[1].lat = << >> /\ osm_data[1].lon = << >>
    /\ osm_data[2].name = BarPadded /\ osm_data[2].lat # << >>
    /\ osm_data[3].name = Blank
    /\ Len(osm_out[1].places) = 1
    /\ Len(osm_out[1].businesses) = 1
    /\ osm_out[1].places[1].lat = base_lat
    /\ osm_out[1].businesses[1].lng = base_lng

\* The center _is_land was asked about.
ProbeLat == grid_sectors[1].lat

ProbeLng == grid_sectors[1].lng

\* The island boxes of Spain.
InCanaryBox ==
    /\ FLe(Lit(275), ProbeLat) /\ FLe(ProbeLat, Lit(295))
    /\ FLe(Lit(-185), ProbeLng) /\ FLe(ProbeLng, Lit(-130))

InBalearicBox ==
    /\ FLe(Lit(385), ProbeLat) /\ FLe(ProbeLat, Lit(400))
    /\ FLe(Lit(10), ProbeLng) /\ FLe(ProbeLng, Lit(40))

\* The mainland exclusions the claim lists.
ListedExclusion ==
    \/ FLt(ProbeLng, Lit(-95))
    \/ FLt(Lit(30), ProbeLng)
    \/ FLt(Lit(15), ProbeLng)
    \/ FLt(ProbeLat, Lit(360))
    \/ FLt(Lit(3), ProbeLng) /\ FLt(ProbeLat, Lit(420))

\* The other mainland exclusions.
OtherExclusion ==
    \/ FLt(Lit(432), ProbeLat)
    \/ FLt(Lit(428), ProbeLat) /\ FLt(ProbeLng, Lit(-15))
    \/ FLt(ProbeLat, Lit(365)) /\ FLt(Lit(-55), ProbeLng)
    \/ FLt(ProbeLng, Lit(-90))

InFinalBounds ==
    /\ FLe(Lit(362), ProbeLat) /\ FLe(ProbeLat, Lit(433))
    /\ FLe(Lit(-93), ProbeLng) /\ FLe(ProbeLng, Lit(30))

\* C33: for Spain the island boxes are tested first and decide: a center in
\* the Canary box is land unless it is in the box's ocean corner (west of
\* -18.0 and north of 28.5), a center in the Balearic box is land, whatever
\* the mainland exclusions would say; elsewhere a center matched by an
\* exclusion is water, and one matched by none and inside the final bounds
\* is land.
C33_SpainIslandRulesDecideFirst ==
    grid_log # << >> /\ grid_log[1].op = "_is_land" =>
        /\ InCanaryBox =>
              grid_log[1].ret = ~(FLt(ProbeLng, Lit(-180)) /\ FLt(Lit(285), ProbeLat))
        /\ ~InCanaryBox /\ InBalearicBox => grid_log[1].ret = TRUE
        /\ ~InCanaryBox /\ ~InBalearicBox /\ (ListedExclusion \/ OtherExclusion) =>
              grid_log[1].ret = FALSE
        /\ /\ ~InCanaryBox /\ ~InBalearicBox
           /\ ~ListedExclusion /\ ~OtherExclusion
           /\ InFinalBounds
           => grid_log[1].ret = TRUE

\* _is_land has answered land for a center in the Balearic box that lies east
\* of 3.0 and south of 42.0, where two mainland exclusions match.
C33_Witness ==
    /\ grid_log # << >>
    /\ grid_log[1].op = "_is_land"
    /\ InBalearicBox
    /\ FLt(Lit(30), ProbeLng) /\ FLt(ProbeLat, Lit(420))
    /\ grid_log[1].ret = TRUE

\* The countries _is_land classifies by their bounding box alone.
BoxCountries == {"France", "Mexico"}

\* C37: for France and Mexico every sector generate produces is land, for
\* every grid size: a filter_water_sectors after generate returns all the
\* grid_size * grid_size sectors, and the statistics then report no water
\* sector and a water elimination of 0.
C37_BoxCountriesAllLand ==
    country \in BoxCountries /\ grid_log # << >> /\ grid_log[1].op = "generate" =>
        /\ \A k \in 1..Len(grid_log[1].ret) :
              _is_land(country, grid_log[1].ret[k])
        /\ \A k \in FilterCalls :
              /\ grid_log[k].ret = grid_log[1].ret
              /\ Len(grid_log[k].ret) = grid_size * grid_size
        /\ Len(grid_log) > 1 =>
              /\ get_stats(country, grid_size, grid_sectors).water_sectors = 0
              /\ get_stats(country, grid_size, grid_sectors).water_elimination[1] = 0
              /\ get_stats(country, grid_size, grid_sectors).land_sectors
                    = grid_size * grid_size

\* A grid of 9 or more sectors over Mexico has been generated and filtered,
\* and all its sectors are stored.
C37_Witness ==
    /\ country = "Mexico"
    /\ grid_size >= 3
    /\ Len(grid_log) = 2
    /\ grid_log[1].op = "generate"
    /\ grid_log[2].op = "filter_water_sectors"
    /\ Len(grid_sectors) = grid_size * grid_size

\* The sectors whose batch was gathered and absorbed: the first i of the run.
Absorbed == SubSeq(sectors, 1, Min(i, Len(sectors)))

\* C35: all_places is, at every point of the run and under every order in
\* which the fetches of a batch complete, the results of the absorbed sectors
\* one after the other in the order of the sectors (sector order inside a
\* batch, batches in order): it is a function of the per-sector results alone.
C35_AccumulatedInDispatchOrder ==
    all_places = Flatten([k \in 1..Len(Absorbed) |-> fetched[Absorbed[k]].result])

\* The fetches of a batch of two complete against the dispatch order: the
\* second has returned a record while the first still waits for its response.
C35_Witness ==
    /\ runpc = "gather"
    /\ Len(Batch) = 2
    /\ task[Batch[1]].pc = "request"
    /\ task[Batch[2]].pc = "done"
    /\ task[Batch[2]].result # << >>

\* No request is in flight: no search coroutine is inside _request, neither
\* suspended in session.get nor leaving it.
NoRequestInFlight == \A s \in DOMAIN task : task[s].pc \notin {"request", "closing"}

\* C36: whenever no request is in flight, every issued request was counted
\* once and ended as one success or as one retry (requests = success + retry),
\* and every block is a retry (blocked <= retry).
C36_CountersBalanceWhenIdle ==
    NoRequestInFlight =>
        /\ stats.requests = stats.success + stats.retry
        /\ stats.blocked <= stats.retry

\* A search coroutine of sector s has been created and has not returned.
Fetching(s) ==
    /\ s \in DOMAIN task
    /\ task[s].pc \in {"acquire", "jitter", "request", "closing", "backoff"}

\* C34: when every issued request completes and waiting tasks are scheduled
\* fairly, every sector fetch that was started eventually returns, and a run
\* whose grid could be built eventually is done with all its batches,
\* whatever the outcomes of the requests are.
C34_EveryFetchReturnsAndRunFinishes ==
    /\ \A s \in 1..FairSectors :
          Fetching(s) ~> (s \in DOMAIN task /\ task[s].pc = "done")
    /\ (country \in DOMAIN COUNTRIES) ~> (runpc = "done" /\ i >= Len(sectors))

\* A run with proxies is done although every request failed and every proxy
\* was marked failed: its fetches were given up after 3 tries each.
C34_Witness ==
    /\ runpc = "done"
    /\ Len(sectors) >= 1
    /\ proxies # << >>
    /\ failed = Range(proxies)
    /\ stats.success = 0
    /\ stats.requests = MaxAttempts * Len(sectors)
    /\ \A k \in 1..Len(sectors) : fetched[sectors[k]].exit = "exhausted"

====
